---- MODULE Spec2Model ----
(***************************************************************************)
(* A model of the entity-component simulation core of e-racer:             *)
(*   World   (core/World.ts)   deferred entity queue, fixed-timestep loop  *)
(*   Entity  (core/Entity.ts)  typed component bag                         *)
(*   VehicleComponent.setInputs, CheckpointComponent.checkVehiclePassing   *)
(*                                                                         *)
(* Time.  World.update works in seconds: deltaTime = (currentTime -        *)
(* lastFixedUpdateTime) / 1000, fixedTimeStep = 1/60, cap 0.25.  The model *)
(* measures durations exactly, in units of 1/3000 s, so that one           *)
(* millisecond is 3 units, the fixed step is 50 units and the cap is 750   *)
(* units.  currentTime itself is kept in milliseconds, as in the code.     *)
(* Floating-point rounding of the accumulator is not modelled.             *)
(***************************************************************************)
EXTENDS Integers, Sequences, FiniteSets, TLC

VARIABLES
    \* ---- World (core/World.ts) ----
    entities,            \* Map<string, Entity>: the ids, in insertion order
    systems,             \* System[]
    entitiesToAdd,       \* Entity[]
    entitiesToRemove,    \* Set<string>, in insertion order
    lastFixedUpdateTime, \* ms
    accumulator,         \* units of 1/3000 s
    \* ---- the World.update call in progress ----
    pc,                  \* "idle", or the dispatch loop update is in
    idx,                 \* index of the next callback in that loop
    cappedDeltaTime,     \* the local of World.update (0 outside a call)
    \* ---- observations of World (history, not program state) ----
    updateCalls,         \* number of World.update calls so far
    prevTime,            \* lastFixedUpdateTime when the last call began
    ticks,               \* fixed ticks completed by the last call
    varPasses,           \* variable passes begun by the last call
    totalTicks,          \* fixed ticks completed by all calls
    sumDelta,            \* sum of the capped deltas of all calls
    callLog,             \* the callbacks made by the call in progress
    queueLog,            \* what processEntityQueue did in the call in progress
    addOrder,            \* the systems in the order addSystem got them
    systemWorld,         \* system -> its `world` reference (System.world)
    \* ---- Entity (core/Entity.ts) ----
    components,          \* entity -> Map<type, Component>, in insertion order
    entityOf,            \* component -> its `entity` back-reference
    \* ---- VehicleComponent (unnamed/part_003) ----
    throttleInput, brakeInput, steeringInput,
    lastInputs,          \* observation: the arguments of the last setInputs
    \* ---- CheckpointComponent (unnamed/part_004) ----
    passedTimestamps,    \* Map<string, number>: vehicle -> timestamp
    cpHasTransform,      \* this.entity?.getComponent(TRANSFORM) is there
    now,                 \* performance.now()
    cpCalls,             \* observation: checkVehiclePassing calls so far
    cpArg,               \* observation: the arguments of the last call
    cpRet,               \* observation: what the last call returned
    armed,               \* observation: per vehicle, no pass reported since
                         \* the vehicle was last seen beyond 1.5 x radius
    \* ---- LapCounterComponent (components/LapCounterComponent.ts) ----
    lapCounter,          \* entity -> the fields of its lap counter
    lapCalls,            \* observation: startRace/passCheckpoint calls so far
    lapArg,              \* observation: the arguments of the last passCheckpoint
    lapRet,              \* observation: what the last passCheckpoint returned
    scenario,            \* observation: how far the calls since startRace
                         \* have followed the sequence 0,1,2,3,4,0
    \* ---- RaceSystem (systems/RaceSystem.ts) ----
    race,                \* the fields of the race system
    raceLog,             \* observation: the notifications sent, in order
    raceCalls,           \* observation: calls of the race system so far
    raceOp,              \* observation: the last call of the race system
    countdownScenario,   \* observation: 1 after a first startCountdown, one
                         \* more for each update(1.0 s) that followed it
    away,                \* observation: per racer, an update of the race saw
                         \* it off the start/finish line since the race
                         \* began or since it last came back to the line
    circuits,            \* observation: per racer, the times an update of
                         \* the race saw it come back to the start/finish
                         \* line
    largestDelta,        \* observation: the largest deltaTime an update was
                         \* given while the last countdown was running
    \* ---- NetworkSystem (unnamed/part_002) ----
    net,                 \* the fields of the network system
    identity,            \* entity -> the fields of its NetworkIdentityComponent
    transform,           \* entity -> position, quaternion, scale of its
                         \* TransformComponent
    vehicleState,        \* entity -> velocity, steeringAngle, engineForce,
                         \* brakingForce of its VehicleComponent
    outbox,              \* observation: the messages given to socket.emit
    netCalls,            \* observation: calls of the network system so far
    netOp,               \* observation: the last call and its argument
    syncLog,             \* observation: the clock readings of the updates
                         \* that went through the network entities
    \* ---- GameManager (unnamed/part_000) ----
    gameStates,          \* the states setGameState has changed gameState
                         \* to, in order; the last one is gameState
    \* ---- two Worlds side by side (core/World.ts) ----
    twin                 \* the frame time and the inputs both were given
                         \* last, and the fields of each of the two

worldVars == <<entities, systems, entitiesToAdd, entitiesToRemove,
               lastFixedUpdateTime, accumulator, pc, idx, cappedDeltaTime,
               updateCalls, prevTime, ticks, varPasses, totalTicks, sumDelta,
               callLog, queueLog, addOrder, systemWorld>>
entityVars == <<components, entityOf>>
vehicleVars == <<throttleInput, brakeInput, steeringInput, lastInputs>>
checkpointVars == <<passedTimestamps, cpHasTransform, now, cpCalls, cpArg,
                    cpRet, armed>>
lapVars == <<lapCounter, lapCalls, lapArg, lapRet, scenario>>
\* the components and systems that came after the checkpoint
raceVars == <<race, raceLog, raceCalls, raceOp, countdownScenario, away,
              circuits, largestDelta>>
networkVars == <<net, identity, transform, vehicleState, outbox, netCalls,
                 netOp, syncLog>>
gameVars == <<gameStates>>
twinVars == <<twin>>
otherVars == <<lapVars, raceVars, networkVars, gameVars, twinVars>>
\* everything that is not the World's or an Entity's
restVars == <<vehicleVars, checkpointVars, otherVars>>
vars == <<worldVars, entityVars, restVars>>

Null == 0               \* no entity / no component (ids start at 1)

(***************************************************************************)
(* Bounds and input sets                                                   *)
(***************************************************************************)
MaxUpdates == 3          \* World.update calls in one behaviour
MaxQueue == 1            \* pending addEntity calls, pending removeEntity calls
EntityIds == {1, 2}
CompIds == {1, 2, 3, 4}
Types == {"transform", "vehicle"}
SystemIds == {"network", "race", "other"}
\* Frame gaps in ms.  FrameDeltas: less than a fixed step, one step and a
\* rest, two steps and a rest.  StallDeltas adds a repeated timestamp and a
\* stalled frame (longer than the cap).
FrameDeltas == {5, 20, 40}
StallDeltas == {0, 5, 20, 300}

(***************************************************************************)
(* Program constants                                                       *)
(***************************************************************************)
FixedTimeStep == 50      \* 1/60 s
UnitsPerMs == 3          \* 1/1000 s
MaxDeltaTime == 750      \* 0.25 s

\* System.priority: 0 unless the subclass overrides it (NetworkSystem: -10).
Priority(s) == IF s = "network" THEN -10 ELSE 0
\* Component.type of the components the model builds.
CompType(c) ==
    IF c \in {1, 3} \/ c \in 23..27 THEN "transform"
    ELSE IF c \in {2, 4} THEN "vehicle"
    ELSE IF c \in {5, 7} THEN "lapCounter"
    ELSE IF c = 8 THEN "transform"
    ELSE IF c \in {9, 10} THEN "networkIdentity"
    ELSE "checkpoint"
\* the World a system was added to
TheWorld == 1
\* system.init(this) of World.addSystem: System.init stores the world;
\* RaceSystem overrides init() with an empty body.
SystemInit(s) == IF s = "race" THEN Null ELSE TheWorld

Min(a, b) == IF a <= b THEN a ELSE b
Range(s) == {s[i] : i \in 1..Len(s)}

(***************************************************************************)
(* Insertion-ordered Map / Set of JavaScript, as a sequence without        *)
(* repetition: set/add of a present key keeps its place.                   *)
(***************************************************************************)
MapSet(m, k) == IF k \in Range(m) THEN m ELSE Append(m, k)
MapDelete(m, k) == SelectSeq(m, LAMBDA x : x # k)

(***************************************************************************)
(* Entity                                                                  *)
(***************************************************************************)
\* Entity.getAllComponents(): Array.from(this.components.values())
GetAllComponents(e) == components[e]

\* Entity.getComponent / hasComponent: the component of that type, or Null
GetComponent(e, type) ==
    IF \E i \in 1..Len(components[e]) : CompType(components[e][i]) = type
    THEN components[e][CHOOSE i \in 1..Len(components[e]) :
                          CompType(components[e][i]) = type]
    ELSE Null

\* this.components.set(component.type, component): a present key keeps its
\* place in the Map and gets the new value.
ComponentsSet(list, c) ==
    IF \E i \in 1..Len(list) : CompType(list[i]) = CompType(c)
    THEN [i \in 1..Len(list) |->
             IF CompType(list[i]) = CompType(c) THEN c ELSE list[i]]
    ELSE Append(list, c)

\* Entity.addComponent
AddComponentResult(comps, back, e, c) ==
    [components |-> [comps EXCEPT ![e] = ComponentsSet(@, c)],
     entityOf |-> [back EXCEPT ![c] = e]]

\* Entity.removeComponent
RemoveComponentResult(comps, back, e, type) ==
    IF \E i \in 1..Len(comps[e]) : CompType(comps[e][i]) = type
    THEN LET i == CHOOSE j \in 1..Len(comps[e]) : CompType(comps[e][j]) = type
         IN  [components |->
                 [comps EXCEPT ![e] =
                     SelectSeq(@, LAMBDA x : CompType(x) # type)],
              entityOf |-> [back EXCEPT ![comps[e][i]] = Null]]
    ELSE [components |-> comps, entityOf |-> back]

NoComponents == [components |-> [e \in EntityIds |-> <<>>],
                 entityOf |-> [c \in CompIds |-> Null]]

\* The entities the World specifications work with, built as
\* GameManager builds a car: addComponent calls, then world.addEntity.
\* Entity 1 carries a transform and a vehicle, entity 2 a transform.
BuiltEntities ==
    LET a == AddComponentResult(NoComponents.components,
                                NoComponents.entityOf, 1, 1)
        b == AddComponentResult(a.components, a.entityOf, 1, 2)
    IN  AddComponentResult(b.components, b.entityOf, 2, 3)

(***************************************************************************)
(* World                                                                   *)
(***************************************************************************)
\* this.systems.sort((a, b) => a.priority - b.priority): a stable sort.
RECURSIVE InsertByPriority(_, _)
InsertByPriority(s, sorted) ==
    IF sorted = <<>> THEN <<s>>
    ELSE IF Priority(Head(sorted)) - Priority(s) <= 0
         THEN <<Head(sorted)>> \o InsertByPriority(s, Tail(sorted))
         ELSE <<s>> \o sorted

RECURSIVE SortByPriority(_)
SortByPriority(list) ==
    IF list = <<>> THEN <<>>
    ELSE InsertByPriority(list[Len(list)],
                          SortByPriority(SubSeq(list, 1, Len(list) - 1)))

\* Faulty variant: addSystem that pushes and does not sort
AddSystemUnsorted(list, s) == Append(list, s)

\* World.addSystem: push, then sort.
AddSystemResult(list, s) == SortByPriority(Append(list, s))

\* Faulty variant: addEntity that puts the entity into the registry at once
AddEntityImmediately(ents, toAdd, e) ==
    [entities |-> MapSet(ents, e), entitiesToAdd |-> toAdd]

\* World.addEntity / World.removeEntity: what they leave in the registry and
\* in the two queues.
AddEntityResult(ents, toAdd, e) ==
    [entities |-> ents, entitiesToAdd |-> Append(toAdd, e)]
RemoveEntityResult(ents, toRemove, e) ==
    [entities |-> ents, entitiesToRemove |-> MapSet(toRemove, e)]

\* World.processEntityQueue, first loop: entities.set for each queued entity.
RECURSIVE SetAll(_, _)
SetAll(ents, toAdd) ==
    IF toAdd = <<>> THEN ents
    ELSE SetAll(MapSet(ents, Head(toAdd)), Tail(toAdd))

\* The onRemove calls made for one entity, in getAllComponents order.
OnRemoveCalls(e) ==
    [i \in 1..Len(GetAllComponents(e)) |->
        [ev |-> "onRemove", id |-> GetAllComponents(e)[i]]]

\* Faulty variant: removal that deletes the entity without notifying its components
RemoveOneNoHooks(ents, log, e) ==
    [entities |-> MapDelete(ents, e),
     log |-> log \o <<[ev |-> "delete", id |-> e]>>]

\* World.processEntityQueue, removal of one present entity: the hooks, then
\* entities.delete.
RemoveOne(ents, log, e) ==
    [entities |-> MapDelete(ents, e),
     log |-> log \o OnRemoveCalls(e) \o <<[ev |-> "delete", id |-> e]>>]

\* World.processEntityQueue, second loop.
RECURSIVE RemoveAll(_, _, _)
RemoveAll(ents, toRemove, log) ==
    IF toRemove = <<>> THEN [entities |-> ents, log |-> log]
    ELSE IF Head(toRemove) \in Range(ents)
         THEN LET r == RemoveOne(ents, log, Head(toRemove))
              IN  RemoveAll(r.entities, Tail(toRemove), r.log)
         ELSE RemoveAll(ents, Tail(toRemove), log)

ProcessEntityQueue(ents, toAdd, toRemove) ==
    RemoveAll(SetAll(ents, toAdd), toRemove, <<>>)

\* The components World.update visits in one pass: for each entity of
\* entities.values(), each of its getAllComponents().
RECURSIVE FlatComponents(_)
FlatComponents(ents) ==
    IF ents = <<>> THEN <<>>
    ELSE GetAllComponents(Head(ents)) \o FlatComponents(Tail(ents))

\* World.update, line 103: the call that only records the baseline.
IsInitialFrame(last) == last = 0

\* Faulty variant: deltaTime without the cap
UncappedDelta(currentTime, last) == (currentTime - last) * UnitsPerMs

\* World.update, lines 109-114: deltaTime and its cap, in units of 1/3000 s.
CappedDelta(currentTime, last) ==
    Min((currentTime - last) * UnitsPerMs, MaxDeltaTime)

\* Faulty variant: a loop that stops one comparison early
LoopConditionStrict(acc) == acc > FixedTimeStep

\* World.update, line 125: the condition of the fixed-tick loop.
LoopCondition(acc) == acc >= FixedTimeStep

(***************************************************************************)
(* Where World.update is after position (p, i) of its loops: the next      *)
(* callback it makes, or its return.  p = "while" is the test of the       *)
(* fixed-tick loop; a fixed tick ends with accumulator -= fixedTimeStep.   *)
(* acc: the accumulator, k: fixed ticks completed, v: variable passes      *)
(* begun, nSys / nComp: the lengths of the two lists the loops walk.       *)
(***************************************************************************)
\* Faulty variant: a fixed tick that updates the components before the systems
RECURSIVE SettleComponentsFirst(_, _, _, _, _, _, _)
SettleComponentsFirst(p, i, acc, k, v, nSys, nComp) ==
    CASE p = "while" ->
            IF LoopCondition(acc)
            THEN SettleComponentsFirst("fixedComponents", 1, acc, k, v,
                                       nSys, nComp)
            ELSE SettleComponentsFirst("varSystems", 1, acc, k, v + 1,
                                       nSys, nComp)
      [] p = "fixedComponents" ->
            IF i <= nComp
            THEN [pc |-> p, idx |-> i, acc |-> acc, ticks |-> k, varPasses |-> v]
            ELSE SettleComponentsFirst("fixedSystems", 1, acc, k, v,
                                       nSys, nComp)
      [] p = "fixedSystems" ->
            IF i <= nSys
            THEN [pc |-> p, idx |-> i, acc |-> acc, ticks |-> k, varPasses |-> v]
            ELSE SettleComponentsFirst("while", 0, acc - FixedTimeStep, k + 1,
                                       v, nSys, nComp)
      [] p = "varSystems" ->
            IF i <= nSys
            THEN [pc |-> p, idx |-> i, acc |-> acc, ticks |-> k, varPasses |-> v]
            ELSE SettleComponentsFirst("varComponents", 1, acc, k, v,
                                       nSys, nComp)
      [] p = "varComponents" ->
            IF i <= nComp
            THEN [pc |-> p, idx |-> i, acc |-> acc, ticks |-> k, varPasses |-> v]
            ELSE [pc |-> "return", idx |-> 0, acc |-> acc, ticks |-> k,
                  varPasses |-> v]

RECURSIVE Settle(_, _, _, _, _, _, _)
Settle(p, i, acc, k, v, nSys, nComp) ==
    CASE p = "while" ->
            IF LoopCondition(acc)
            THEN Settle("fixedSystems", 1, acc, k, v, nSys, nComp)
            ELSE Settle("varSystems", 1, acc, k, v + 1, nSys, nComp)
      [] p = "fixedSystems" ->
            IF i <= nSys
            THEN [pc |-> p, idx |-> i, acc |-> acc, ticks |-> k, varPasses |-> v]
            ELSE Settle("fixedComponents", 1, acc, k, v, nSys, nComp)
      [] p = "fixedComponents" ->
            IF i <= nComp
            THEN [pc |-> p, idx |-> i, acc |-> acc, ticks |-> k, varPasses |-> v]
            ELSE Settle("while", 0, acc - FixedTimeStep, k + 1, v, nSys, nComp)
      [] p = "varSystems" ->
            IF i <= nSys
            THEN [pc |-> p, idx |-> i, acc |-> acc, ticks |-> k, varPasses |-> v]
            ELSE Settle("varComponents", 1, acc, k, v, nSys, nComp)
      [] p = "varComponents" ->
            IF i <= nComp
            THEN [pc |-> p, idx |-> i, acc |-> acc, ticks |-> k, varPasses |-> v]
            ELSE [pc |-> "return", idx |-> 0, acc |-> acc, ticks |-> k,
                  varPasses |-> v]

(***************************************************************************)
(* VehicleComponent.setInputs.  Inputs are real numbers; the model counts  *)
(* them in steps of 1/InputOne, so InputOne stands for 1.0.                *)
(***************************************************************************)
InputOne == 2
MaxInput == 3            \* arguments range over -MaxInput..MaxInput
Inputs == (0 - MaxInput)..MaxInput

Max(a, b) == IF a >= b THEN a ELSE b

\* Faulty variant: setInputs that clamps the brake like the other two channels
SetInputsBrakeSigned(throttle, brake, steering) ==
    [throttleInput |-> Max(0 - InputOne, Min(InputOne, throttle)),
     brakeInput |-> Max(0 - InputOne, Min(InputOne, brake)),
     steeringInput |-> Max(0 - InputOne, Min(InputOne, steering))]

\* setInputs, lines 47-49: Math.max(lo, Math.min(hi, x))
SetInputsResult(throttle, brake, steering) ==
    [throttleInput |-> Max(0 - InputOne, Min(InputOne, throttle)),
     brakeInput |-> Max(0, Min(InputOne, brake)),
     steeringInput |-> Max(0 - InputOne, Min(InputOne, steering))]

NoInputs == [throttle |-> 0, brake |-> 0, steering |-> 0, called |-> FALSE]

InitVehicle ==
    /\ throttleInput = 0
    /\ brakeInput = 0
    /\ steeringInput = 0
    /\ lastInputs = NoInputs

SetInputs(throttle, brake, steering) ==
    /\ LET r == SetInputsResult(throttle, brake, steering)
       IN  /\ throttleInput' = r.throttleInput
           /\ brakeInput' = r.brakeInput
           /\ steeringInput' = r.steeringInput
    /\ lastInputs' = [throttle |-> throttle, brake |-> brake,
                      steering |-> steering, called |-> TRUE]
    /\ UNCHANGED <<worldVars, entityVars, checkpointVars, otherVars>>

(***************************************************************************)
(* CheckpointComponent.checkVehiclePassing.  The call computes the         *)
(* distance from the checkpoint's transform to the vehicle; the model      *)
(* takes the distance as the input.                                        *)
(***************************************************************************)
Radius == 20
MaxNow == 2              \* performance.now() ranges over 0..MaxNow
MaxChecks == 5           \* checkVehiclePassing calls in one behaviour
VehicleIds == {1, 2}
NoStamp == -1            \* no entry in passedTimestamps
\* at the centre, on the radius, just outside it, on 1.5 x radius, just
\* beyond it, far away
Distances == {0, Radius, Radius + 1, (3 * Radius) \div 2,
              (3 * Radius) \div 2 + 1, 2 * Radius}

\* line 41: distance <= this.radius
WithinRadius(distance) == distance <= Radius
\* Faulty variant: a latch cleared as soon as the vehicle is outside the radius
BeyondRadius(distance) == distance > Radius

\* line 49: distance > this.radius * 1.5
BeyondReset(distance) == 2 * distance > 3 * Radius

\* checkVehiclePassing, lines 28-56: the map it leaves and what it returns.
CheckVehiclePassingResult(stamps, hasTransform, v, distance, t) ==
    IF ~hasTransform THEN [passedTimestamps |-> stamps, ret |-> FALSE]
    ELSE IF WithinRadius(distance)
         THEN IF stamps[v] = NoStamp
              THEN [passedTimestamps |-> [stamps EXCEPT ![v] = t],
                    ret |-> TRUE]
              ELSE [passedTimestamps |-> stamps, ret |-> FALSE]
         ELSE IF BeyondReset(distance)
              THEN [passedTimestamps |-> [stamps EXCEPT ![v] = NoStamp],
                    ret |-> FALSE]
              ELSE [passedTimestamps |-> stamps, ret |-> FALSE]

NoCheck == [vehicle |-> Null, distance |-> 0]

InitCheckpoint ==
    /\ passedTimestamps = [v \in VehicleIds |-> NoStamp]
    /\ cpHasTransform = FALSE
    /\ now = 0
    /\ cpCalls = 0
    /\ cpArg = NoCheck
    /\ cpRet = FALSE
    /\ armed = [v \in VehicleIds |-> TRUE]

\* GameManager.createCheckpoint: the checkpoint's entity gets a transform
\* and the checkpoint component.
CheckpointAttach ==
    /\ ~cpHasTransform
    /\ cpHasTransform' = TRUE
    /\ UNCHANGED <<passedTimestamps, now, cpCalls, cpArg, cpRet, armed,
                   worldVars, entityVars, vehicleVars, otherVars>>

\* time passes
ClockTick ==
    /\ now < MaxNow
    /\ now' = now + 1
    /\ UNCHANGED <<passedTimestamps, cpHasTransform, cpCalls, cpArg, cpRet,
                   armed, worldVars, entityVars, vehicleVars, otherVars>>

CheckVehiclePassing(v, distance) ==
    /\ cpCalls < MaxChecks
    /\ cpCalls' = cpCalls + 1
    /\ LET r == CheckVehiclePassingResult(passedTimestamps, cpHasTransform,
                                          v, distance, now)
       IN  /\ passedTimestamps' = r.passedTimestamps
           /\ cpRet' = r.ret
           /\ armed' = [armed EXCEPT ![v] =
                            IF r.ret THEN FALSE
                            ELSE IF 2 * distance > 3 * Radius THEN TRUE
                            ELSE @]
    /\ cpArg' = [vehicle |-> v, distance |-> distance]
    /\ UNCHANGED <<cpHasTransform, now, worldVars, entityVars, vehicleVars,
                   otherVars>>

(***************************************************************************)
(* LapCounterComponent (components/LapCounterComponent.ts)                 *)
(* A counter is the record of its fields.  The Map objects it has created *)
(* are kept in `maps`, and a field that holds a Map holds its position    *)
(* there, so that two fields naming one Map would see each other's        *)
(* writes.                                                                 *)
(***************************************************************************)
MaxLapCalls == 8         \* startRace and passCheckpoint calls in one behaviour
FallbackCheckpoints == 5 \* the "emergency auto-fix" of passCheckpoint
NoBest == -1             \* bestLapTime = null
CheckpointIndexes == 0..(FallbackCheckpoints - 1)
\* <<totalLaps, totalCheckpoints>> as the constructor gets them: the local
\* player's 5 checkpoints, a remote player's 0, and short tracks of 3
LapConfigs == {<<3, 5>>, <<2, 0>>, <<2, 3>>, <<1, 3>>}

\* Map<number, number> over the checkpoint indexes; NoStamp = no entry
EmptyMap == [i \in CheckpointIndexes |-> NoStamp]
MapHas(m, i) == m[i] # NoStamp
MapSize(m) == Cardinality({i \in CheckpointIndexes : MapHas(m, i)})

NewLapCounter(totalLaps, totalCheckpoints) ==
    [currentLap |-> 0, totalLaps |-> totalLaps, lapStartTime |-> 0,
     isRacing |-> FALSE, currentCheckpoint |-> 0,
     totalCheckpoints |-> totalCheckpoints,
     checkpointPassing |-> 1, maps |-> <<EmptyMap>>,
     lapHistory |-> <<>>, bestLapTime |-> NoBest]

PassMap(lc) == lc.maps[lc.checkpointPassing]

\* startRace(); t is performance.now().  The Maps of the dropped history
\* are unreachable and leave `maps`.
StartRaceResult(lc, t) ==
    [lc EXCEPT !.isRacing = TRUE, !.currentLap = 1, !.currentCheckpoint = 0,
               !.maps = <<EmptyMap>>, !.lapHistory = <<>>,
               !.bestLapTime = NoBest, !.lapStartTime = t]

\* Faulty variant: a validation that looks for one index too many
ValidateLapOneMore(lc) ==
    \A i \in 0..lc.totalCheckpoints :
        i \in CheckpointIndexes /\ MapHas(PassMap(lc), i)

ValidateLap(lc) ==
    \A i \in 0..(lc.totalCheckpoints - 1) : MapHas(PassMap(lc), i)

\* Faulty variant: the lap record keeps the in-progress Map itself
SameMap(lc) == [maps |-> lc.maps, ref |-> lc.checkpointPassing]

\* new Map(this.checkpointPassing)
NewMapOf(lc) ==
    [maps |-> Append(lc.maps, PassMap(lc)), ref |-> Len(lc.maps) + 1]

\* Faulty variant: the race ends one lap early
RaceCompleteEarly(lc) == lc.currentLap >= lc.totalLaps

\* this.currentLap > this.totalLaps, after the increment
RaceComplete(lc) == lc.currentLap > lc.totalLaps

FinishRace(lc) == [lc EXCEPT !.isRacing = FALSE]

\* Faulty variant: the lap time is the clock reading itself
LapTimeFromZero(lc, timestamp) == timestamp

\* const lapTime = timestamp - this.lapStartTime
LapTime(lc, timestamp) == timestamp - lc.lapStartTime

\* Faulty variant: an invalid lap can set the best lap time too
BeatsBestAnyLap(lc, lapData) ==
    lc.bestLapTime = NoBest \/ lapData.duration < lc.bestLapTime

\* lapData.valid && (this.bestLapTime === null || lapTime < this.bestLapTime)
BeatsBest(lc, lapData) ==
    lapData.valid
        /\ (lc.bestLapTime = NoBest \/ lapData.duration < lc.bestLapTime)

CompleteLap(lc, timestamp) ==
    LET lapTime == LapTime(lc, timestamp)
        copy == NewMapOf(lc)
        lapData == [lapNumber |-> lc.currentLap,
                    startTime |-> lc.lapStartTime,
                    endTime |-> timestamp,
                    duration |-> lapTime,
                    checkpointTimes |-> copy.ref,
                    valid |-> ValidateLap(lc)]
        pushed == [lc EXCEPT
                      !.maps = copy.maps,
                      !.lapHistory = Append(@, lapData),
                      !.bestLapTime =
                          IF BeatsBest(lc, lapData) THEN lapTime ELSE @,
                      !.currentLap = @ + 1]
    IN  IF RaceComplete(pushed)
        THEN FinishRace(pushed)
        ELSE [pushed EXCEPT
                 !.lapStartTime = timestamp,
                 !.currentCheckpoint = 0,
                 !.maps = [@ EXCEPT ![lc.checkpointPassing] = EmptyMap]]

\* Faulty variant: a pass is processed whether racing or not
NeverSkip(lc) == FALSE

\* if (!this.isRacing) return false
SkipIfNotRacing(lc) == ~lc.isRacing

\* Faulty variant: any other index moves currentCheckpoint
StillAdvanceAny(lc, index) == index # lc.currentCheckpoint

\* the else branch: "Still update currentCheckpoint for non-sequential
\* checkpoint systems"
StillAdvance(lc, index) ==
    \/ index > lc.currentCheckpoint
    \/ lc.currentCheckpoint = lc.totalCheckpoints - 1 /\ index = 0

\* Faulty variant: the emergency fix leaves the count at 0
AutoFixNever(lc) == lc

\* if (this.totalCheckpoints === 0) this.totalCheckpoints = 5
AutoFix(lc) ==
    IF lc.totalCheckpoints = 0
    THEN [lc EXCEPT !.totalCheckpoints = FallbackCheckpoints]
    ELSE lc

\* the right operand of % in expectedNext, read after the fix
Divisor(lc) == AutoFix(lc).totalCheckpoints

\* JavaScript's %: a divisor of 0 gives NaN, which equals no index
NaN == -2
Remainder(a, b) == IF b = 0 THEN NaN ELSE a % b

\* passCheckpoint(index, timestamp): the counter afterwards and the result
PassCheckpointResult(lc0, index, timestamp) ==
    IF SkipIfNotRacing(lc0)
    THEN [lc |-> lc0, ret |-> FALSE]
    ELSE
    LET fixed == AutoFix(lc0)
        expectedNext == Remainder(fixed.currentCheckpoint + 1, Divisor(lc0))
        isNextCheckpoint == index = expectedNext
        isStartFinish == index = 0
        lc == [fixed EXCEPT
                  !.maps[fixed.checkpointPassing][index] = timestamp]
    IN  IF isStartFinish /\ lc.currentCheckpoint = lc.totalCheckpoints - 1
        THEN [lc |-> CompleteLap(lc, timestamp), ret |-> TRUE]
        ELSE IF isNextCheckpoint
        THEN [lc |-> [lc EXCEPT !.currentCheckpoint = index], ret |-> TRUE]
        ELSE IF isStartFinish
                /\ MapSize(PassMap(lc)) >= lc.totalCheckpoints - 1
        THEN [lc |-> CompleteLap(lc, timestamp), ret |-> TRUE]
        ELSE [lc |-> IF StillAdvance(lc, index)
                     THEN [lc EXCEPT !.currentCheckpoint = index]
                     ELSE lc,
              ret |-> FALSE]

\* the calls 0,1,2,3,4,0 whose outcome is observed
ScenarioPasses == <<0, 1, 2, 3, 4, 0>>
Diverged == Len(ScenarioPasses) + 1
NoPass == [entity |-> Null, index |-> 0, timestamp |-> 0]

InitLapCounter(cfg) ==
    /\ lapCounter = [e \in EntityIds |-> NewLapCounter(cfg[1], cfg[2])]
    /\ lapCalls = 0
    /\ lapArg = NoPass
    /\ lapRet = FALSE
    /\ scenario = Diverged

\* RaceSystem.startRace starts the counter of a racer that is not racing.
StartRace(e) ==
    /\ lapCalls < MaxLapCalls
    /\ ~lapCounter[e].isRacing
    /\ lapCalls' = lapCalls + 1
    /\ lapCounter' = [lapCounter EXCEPT ![e] = StartRaceResult(@, now)]
    /\ scenario' = 0
    /\ UNCHANGED <<lapArg, lapRet, worldVars, entityVars, vehicleVars,
                   checkpointVars, raceVars, networkVars, gameVars, twinVars>>

\* lapCounter.passCheckpoint(index, performance.now()), as checkCheckpoints
\* calls it: the index is that of a registered checkpoint, and time has
\* passed since the call before.
PassCheckpoint(e, index) ==
    /\ lapCalls < MaxLapCalls
    /\ index < (IF lapCounter[e].totalCheckpoints = 0
                THEN FallbackCheckpoints
                ELSE lapCounter[e].totalCheckpoints)
    /\ lapCalls' = lapCalls + 1
    /\ now' = now + 1
    /\ LET r == PassCheckpointResult(lapCounter[e], index, now')
       IN  /\ lapCounter' = [lapCounter EXCEPT ![e] = r.lc]
           /\ lapRet' = r.ret
    /\ lapArg' = [entity |-> e, index |-> index, timestamp |-> now']
    /\ scenario' = IF /\ scenario >= 0
                      /\ scenario < Len(ScenarioPasses)
                      /\ index = ScenarioPasses[scenario + 1]
                   THEN scenario + 1
                   ELSE Diverged
    /\ UNCHANGED <<passedTimestamps, cpHasTransform, cpCalls, cpArg, cpRet,
                   armed, worldVars, entityVars, vehicleVars, raceVars,
                   networkVars, gameVars, twinVars>>

(***************************************************************************)
(* RaceSystem (systems/RaceSystem.ts)                                      *)
(* `race` is the record of the system's fields; a callback field is TRUE   *)
(* when a callback is installed.  The operations work on a bundle of what  *)
(* they can change: the system, the lap counters, the checkpoint's latch   *)
(* map, and the notifications sent to the callbacks so far.                *)
(***************************************************************************)
UnitsPerSecond == 1000 * UnitsPerMs
CountdownTime == 3 * UnitsPerSecond      \* countdownTime = 3 (seconds)
NoTick == -1                             \* lastCountdownTick = -1
DefaultTotalLaps == 3                    \* totalLaps = 3

\* Math.ceil of a time, in seconds
CeilSeconds(t) == 0 - ((0 - t) \div UnitsPerSecond)

NewRaceSystem(onRaceStart, onCountdownTick) ==
    [isRaceActive |-> FALSE, countdownActive |-> FALSE,
     countdownTimer |-> 0, lastCountdownTick |-> NoTick,
     playerRankings |-> <<>>, finishedPlayers |-> <<>>,
     totalLaps |-> DefaultTotalLaps, checkpoints |-> <<>>,
     onRaceStart |-> onRaceStart, onRaceEnd |-> TRUE,
     onCountdownTick |-> onCountdownTick,
     onCheckpointPassed |-> TRUE, onLapCompleted |-> TRUE]

\* the notifications
Note(kind, entity, a, b) == [kind |-> kind, entity |-> entity, a |-> a, b |-> b]
TickNote(seconds) == Note("countdownTick", Null, seconds, 0)
RaceStartNote == Note("raceStart", Null, 0, 0)
RaceEndNote == Note("raceEnd", Null, 0, 0)

\* World.getEntitiesWithComponents(types), in registry order
GetEntitiesWithComponents(types) ==
    SelectSeq(entities, LAMBDA e : \A t \in types : GetComponent(e, t) # Null)

\* CheckpointComponent.resetAll()
ResetAll(stamps) == [v \in DOMAIN stamps |-> NoStamp]

\* the loop of startRace over the racers: startRace on each lap counter,
\* and its id pushed to the rankings
RECURSIVE StartRacers(_, _, _)
StartRacers(b, racers, t) ==
    IF racers = <<>> THEN b
    ELSE LET racer == Head(racers)
         IN  StartRacers(
                 IF GetComponent(racer, "lapCounter") # Null
                 THEN [b EXCEPT
                          !.lapCounter[racer] = StartRaceResult(@, t),
                          !.race.playerRankings = Append(@, racer)]
                 ELSE b,
                 Tail(racers), t)

\* Faulty variant: startRace that does not look at the flag
NeverActive(rs) == FALSE

\* if (this.isRaceActive) return
RaceAlreadyActive(rs) == rs.isRaceActive

\* RaceSystem.startRace(); w is this.world, t is performance.now()
RaceStartRace(b, w, t) ==
    IF RaceAlreadyActive(b.race) THEN b
    ELSE
    LET flagged == [b EXCEPT !.race.isRaceActive = TRUE,
                             !.race.countdownActive = FALSE,
                             !.race.playerRankings = <<>>,
                             !.race.finishedPlayers = <<>>]
        reset == IF \E i \in 1..Len(b.race.checkpoints) :
                        GetComponent(b.race.checkpoints[i], "checkpoint") # Null
                 THEN [flagged EXCEPT !.passedTimestamps = ResetAll(@)]
                 ELSE flagged
        started == IF w # Null
                   THEN StartRacers(reset,
                            GetEntitiesWithComponents({"lapCounter", "vehicle"}),
                            t)
                   ELSE reset
    IN  IF started.race.onRaceStart
        THEN [started EXCEPT !.log = Append(@, RaceStartNote)]
        ELSE started

\* Faulty variant: a countdown restarted while one is already running
AlreadyRacing(rs) == rs.isRaceActive

\* if (this.isRaceActive || this.countdownActive) return
AlreadyStarted(rs) == rs.isRaceActive \/ rs.countdownActive

\* RaceSystem.startCountdown()
StartCountdownResult(b) ==
    IF AlreadyStarted(b.race) THEN b
    ELSE
    LET initialSeconds == CeilSeconds(CountdownTime)
        armedRace == [b EXCEPT !.race.countdownActive = TRUE,
                               !.race.countdownTimer = CountdownTime,
                               !.race.lastCountdownTick = NoTick]
    IN  IF armedRace.race.onCountdownTick /\ initialSeconds > 0
        THEN [armedRace EXCEPT !.log = Append(@, TickNote(initialSeconds)),
                               !.race.lastCountdownTick = initialSeconds]
        ELSE armedRace

\* Faulty variant: the countdown ends only below zero
CountdownFinishedBelow(secondsRemaining) == secondsRemaining < 0

\* secondsRemaining <= 0
CountdownFinished(secondsRemaining) == secondsRemaining <= 0

\* Faulty variant: a tick at every update of the countdown
TickEveryUpdate(rs, secondsRemaining) == TRUE

\* secondsRemaining !== this.lastCountdownTick
TickChanged(rs, secondsRemaining) ==
    secondsRemaining # rs.lastCountdownTick

\* RaceSystem.updateCountdown(deltaTime)
UpdateCountdown(b, w, deltaTime, t) ==
    IF ~b.race.countdownActive THEN b
    ELSE
    LET timed == [b EXCEPT !.race.countdownTimer = @ - deltaTime]
        secondsRemaining == CeilSeconds(timed.race.countdownTimer)
    IN  IF CountdownFinished(secondsRemaining)
        THEN IF timed.race.countdownActive
             THEN RaceStartRace(
                      [timed EXCEPT !.race.countdownActive = FALSE], w, t)
             ELSE timed
        ELSE IF TickChanged(timed.race, secondsRemaining)
        THEN [timed EXCEPT
                 !.log = IF timed.race.onCountdownTick
                         THEN Append(@, TickNote(secondsRemaining))
                         ELSE @,
                 !.race.lastCountdownTick = secondsRemaining]
        ELSE timed

\* the loop of endRace over the racers: finishRace on each lap counter
RECURSIVE FinishRacers(_, _)
FinishRacers(b, racers) ==
    IF racers = <<>> THEN b
    ELSE FinishRacers(
             IF GetComponent(Head(racers), "lapCounter") # Null
             THEN [b EXCEPT !.lapCounter[Head(racers)] = FinishRace(@)]
             ELSE b,
             Tail(racers))

\* RaceSystem.endRace()
EndRace(b, w) ==
    IF ~b.race.isRaceActive THEN b
    ELSE
    LET flagged == [b EXCEPT !.race.isRaceActive = FALSE]
        stopped == IF w # Null
                   THEN FinishRacers(flagged,
                            GetEntitiesWithComponents({"lapCounter"}))
                   ELSE flagged
    IN  IF stopped.race.onRaceEnd
        THEN [stopped EXCEPT !.log = Append(@, RaceEndNote)]
        ELSE stopped

\* the comparator of updateRankings is negative: a goes before b
RanksBefore(lcs, a, b) ==
    IF lcs[a].currentLap # lcs[b].currentLap
    THEN lcs[b].currentLap - lcs[a].currentLap < 0
    ELSE IF lcs[a].currentCheckpoint # lcs[b].currentCheckpoint
    THEN lcs[b].currentCheckpoint - lcs[a].currentCheckpoint < 0
    ELSE FALSE

\* activeRacers.sort(...): a stable sort
RECURSIVE InsertRanked(_, _, _)
InsertRanked(lcs, e, sorted) ==
    IF sorted = <<>> THEN <<e>>
    ELSE IF RanksBefore(lcs, e, Head(sorted))
    THEN <<e>> \o sorted
    ELSE <<Head(sorted)>> \o InsertRanked(lcs, e, Tail(sorted))

RECURSIVE SortRanked(_, _)
SortRanked(lcs, list) ==
    IF list = <<>> THEN <<>>
    ELSE InsertRanked(lcs, list[Len(list)],
                      SortRanked(lcs, SubSeq(list, 1, Len(list) - 1)))

\* RaceSystem.updateRankings()
UpdateRankings(b, w) ==
    IF ~b.race.isRaceActive \/ w = Null THEN b
    ELSE
    LET racers == GetEntitiesWithComponents({"lapCounter", "transform"})
        activeRacers ==
            SelectSeq(racers,
                      LAMBDA e : e \notin Range(b.race.finishedPlayers))
    IN  [b EXCEPT !.race.playerRankings =
            b.race.finishedPlayers \o SortRanked(b.lapCounter, activeRacers)]

\* RaceSystem.playerFinish(entityId)
PlayerFinish(b, w, entityId) ==
    IF entityId \in Range(b.race.finishedPlayers) THEN b
    ELSE
    LET pushed == [b EXCEPT !.race.finishedPlayers = Append(@, entityId)]
        ranked == UpdateRankings(pushed, w)
    IN  IF w # Null
           /\ Len(GetEntitiesWithComponents({"lapCounter"}))
                  = Len(ranked.race.finishedPlayers)
        THEN EndRace(ranked, w)
        ELSE ranked

\* CheckpointComponent.index of the track's checkpoint: the start/finish line
CheckpointIndexOf(c) == 0

\* the body of checkCheckpoints for one racer and one checkpoint; distance is
\* that of the racer's position to the checkpoint, t is performance.now()
CheckOne(b, w, racer, checkpoint, distance, t) ==
    IF GetComponent(checkpoint, "checkpoint") = Null THEN b
    ELSE
    LET check == CheckVehiclePassingResult(
                     b.passedTimestamps,
                     GetComponent(checkpoint, "transform") # Null,
                     racer, distance, t)
        latched == [b EXCEPT !.passedTimestamps = check.passedTimestamps]
        checkpointIndex ==
            CheckpointIndexOf(GetComponent(checkpoint, "checkpoint"))
        pass == PassCheckpointResult(latched.lapCounter[racer],
                                     checkpointIndex, t)
        counted == [latched EXCEPT !.lapCounter[racer] = pass.lc]
        told == IF counted.race.onCheckpointPassed
                THEN [counted EXCEPT !.log =
                         Append(@, Note("checkpointPassed", racer,
                                        checkpointIndex, 0))]
                ELSE counted
        lc == pass.lc
        previousLap == lc.currentLap - 1
        found == {i \in 1..Len(lc.lapHistory) :
                      lc.lapHistory[i].lapNumber = previousLap}
        lapTold ==
            IF found # {} /\ told.race.onLapCompleted
            THEN [told EXCEPT !.log =
                     Append(@, Note("lapCompleted", racer, previousLap,
                         lc.lapHistory[CHOOSE i \in found :
                             \A j \in found : i <= j].duration))]
            ELSE told
    IN  IF ~check.ret THEN latched
        ELSE IF ~pass.ret THEN counted
        ELSE IF ~(checkpointIndex = 0 /\ lc.currentLap > 1) THEN told
        ELSE IF lc.currentLap > lc.totalLaps
        THEN PlayerFinish(lapTold, w, racer)
        ELSE lapTold

\* the inner loop of checkCheckpoints: one racer against every checkpoint
RECURSIVE CheckAgainst(_, _, _, _, _, _)
CheckAgainst(b, w, racer, cps, distance, t) ==
    IF cps = <<>> THEN b
    ELSE CheckAgainst(CheckOne(b, w, racer, Head(cps), distance, t),
                      w, racer, Tail(cps), distance, t)

\* "Make sure lap counter has the right number of checkpoints"
HealCheckpointCount(b, racer) ==
    IF /\ b.lapCounter[racer].totalCheckpoints # Len(b.race.checkpoints)
       /\ Len(b.race.checkpoints) > 0
    THEN [b EXCEPT !.lapCounter[racer].totalCheckpoints =
                       Len(b.race.checkpoints)]
    ELSE b

\* the outer loop of checkCheckpoints, over the racers found at its start
RECURSIVE CheckRacers(_, _, _, _, _)
CheckRacers(b, w, racers, distances, t) ==
    IF racers = <<>> THEN b
    ELSE LET racer == Head(racers)
             healed == HealCheckpointCount(b, racer)
         IN  CheckRacers(
                 CheckAgainst(healed, w, racer, healed.race.checkpoints,
                              distances[racer], t),
                 w, Tail(racers), distances, t)

\* RaceSystem.checkCheckpoints()
CheckCheckpoints(b, w, distances, t) ==
    IF ~b.race.isRaceActive \/ w = Null THEN b
    ELSE CheckRacers(b, w,
             GetEntitiesWithComponents({"vehicle", "transform", "lapCounter"}),
             distances, t)

\* this.checkpoints.sort(...) by index: a stable sort
RECURSIVE InsertByIndex(_, _)
InsertByIndex(e, sorted) ==
    IF sorted = <<>> THEN <<e>>
    ELSE IF CheckpointIndexOf(GetComponent(e, "checkpoint"))
               < CheckpointIndexOf(GetComponent(Head(sorted), "checkpoint"))
    THEN <<e>> \o sorted
    ELSE <<Head(sorted)>> \o InsertByIndex(e, Tail(sorted))

RECURSIVE SortByIndex(_)
SortByIndex(list) ==
    IF list = <<>> THEN <<>>
    ELSE InsertByIndex(list[Len(list)],
                       SortByIndex(SubSeq(list, 1, Len(list) - 1)))

\* the loop of registerCheckpoints over the lap counters in the world
RECURSIVE HealRacers(_, _)
HealRacers(b, racers) ==
    IF racers = <<>> THEN b
    ELSE HealRacers(
             IF GetComponent(Head(racers), "lapCounter") # Null
             THEN HealCheckpointCount(b, Head(racers))
             ELSE b,
             Tail(racers))

\* RaceSystem.registerCheckpoints()
RegisterCheckpointsResult(b, w) ==
    IF w = Null THEN b
    ELSE HealRacers(
             [b EXCEPT !.race.checkpoints =
                 SortByIndex(
                     GetEntitiesWithComponents({"checkpoint", "transform"}))],
             GetEntitiesWithComponents({"lapCounter"}))

\* RaceSystem.update(deltaTime)
RaceSystemUpdate(b, w, deltaTime, distances, t) ==
    LET counted == UpdateCountdown(b, w, deltaTime, t)
        checked == CheckCheckpoints(counted, w, distances, t)
    IN  IF checked.race.isRaceActive
        THEN UpdateRankings(checked, w)
        ELSE checked

\* RaceSystem.getPlayerPosition(entityId)
GetPlayerPosition(rs, entityId) ==
    IF entityId \notin Range(rs.playerRankings)
    THEN Len(rs.playerRankings) + 1
    ELSE (CHOOSE i \in 1..Len(rs.playerRankings) :
              /\ rs.playerRankings[i] = entityId
              /\ \A j \in 1..(i - 1) : rs.playerRankings[j] # entityId)

MaxRaceCalls == 8        \* calls of the race system in one behaviour
\* deltaTime of update: the frame cap of World.update, 1 s and 2 s
RaceDeltas == {MaxDeltaTime, UnitsPerSecond, 2 * UnitsPerSecond}
\* where a racer is when update looks: on the checkpoint, or far from it
RaceDistances == [EntityIds -> {0, 2 * Radius}]
OffScenario == 0 - 1

InitRace(onRaceStart, onCountdownTick) ==
    /\ race = NewRaceSystem(onRaceStart, onCountdownTick)
    /\ raceLog = <<>>
    /\ raceCalls = 0
    /\ raceOp = "none"
    /\ countdownScenario = 0
    /\ away = [e \in EntityIds |-> FALSE]
    /\ circuits = [e \in EntityIds |-> 0]
    /\ largestDelta = 0

\* What an update of the race sees of a car that drives round the track:
\* the car counts as away once it is beyond the line's reset distance, and
\* has come round once more when it is within the line's radius again.
SeenAt(seen, distance) ==
    IF WithinRadius(distance)
    THEN IF seen.away
         THEN [away |-> FALSE, circuits |-> seen.circuits + 1]
         ELSE seen
    ELSE IF BeyondReset(distance)
    THEN [seen EXCEPT !.away = TRUE]
    ELSE seen

\* the cars on the grid when the race starts have not driven yet
OnGrid == [away |-> FALSE, circuits |-> 0]

Bundle == [race |-> race, lapCounter |-> lapCounter,
           passedTimestamps |-> passedTimestamps, log |-> raceLog]

\* what a call of the race system that leaves b behind changes
RaceStep(op, b) ==
    /\ raceOp' = op
    /\ race' = b.race
    /\ lapCounter' = b.lapCounter
    /\ passedTimestamps' = b.passedTimestamps
    /\ raceLog' = b.log
    /\ UNCHANGED <<cpHasTransform, now, cpCalls, cpArg, cpRet, armed,
                   lapCalls, lapArg, lapRet, scenario,
                   entityVars, vehicleVars, networkVars>>

\* a call of the race system, counted; what its callbacks do to the game
\* is left out
RaceCall(op, b) ==
    /\ raceCalls < MaxRaceCalls
    /\ raceCalls' = raceCalls + 1
    /\ RaceStep(op, b)
    /\ UNCHANGED <<worldVars, gameVars, twinVars>>

\* raceSystem.startCountdown()
StartCountdown ==
    /\ RaceCall("startCountdown", StartCountdownResult(Bundle))
    /\ UNCHANGED <<away, circuits>>
    /\ largestDelta' = IF AlreadyStarted(race) THEN largestDelta ELSE 0
    /\ countdownScenario' =
           IF countdownScenario = 0 /\ ~AlreadyStarted(race)
           THEN 1 ELSE OffScenario

\* raceSystem.registerCheckpoints()
RegisterCheckpoints ==
    /\ RaceCall("registerCheckpoints",
                RegisterCheckpointsResult(Bundle, systemWorld["race"]))
    /\ UNCHANGED <<away, circuits, largestDelta>>
    /\ countdownScenario' =
           IF countdownScenario = 0 THEN 0 ELSE OffScenario

\* what an update of the race sees of each car
SeenBy(deltaTime, distances) ==
    LET counted == UpdateCountdown(Bundle, systemWorld["race"],
                                   deltaTime, now)
    IN  [e \in EntityIds |->
            IF ~counted.race.isRaceActive
            THEN [away |-> away[e], circuits |-> circuits[e]]
            ELSE SeenAt(IF race.isRaceActive
                        THEN [away |-> away[e], circuits |-> circuits[e]]
                        ELSE OnGrid,
                        distances[e])]

\* raceSystem.update(deltaTime)
RaceUpdate(deltaTime, distances) ==
    /\ RaceCall("update",
                RaceSystemUpdate(Bundle, systemWorld["race"], deltaTime,
                                 distances, now))
    /\ LET seen == SeenBy(deltaTime, distances)
       IN  /\ away' = [e \in EntityIds |-> seen[e].away]
           /\ circuits' = [e \in EntityIds |-> seen[e].circuits]
    /\ largestDelta' = IF race.countdownActive
                       THEN Max(largestDelta, deltaTime)
                       ELSE largestDelta
    /\ countdownScenario' =
           IF countdownScenario >= 1 /\ deltaTime = UnitsPerSecond
           THEN countdownScenario + 1 ELSE OffScenario

\* frame gaps in ms as World.update sees them: a repeated timestamp, 100 ms,
\* 250 ms, and a stalled frame that the cap cuts to 0.25 s
CountdownFrames == {0, 100, 250, 300}
\* the cars stand on the start/finish line
StandingStill == [e \in EntityIds |-> 0]

\* system.update(cappedDeltaTime) of World.update's variable pass, for a
\* frame that comes `elapsed` ms after the one before.  The frames of a
\* countdown end with the countdown; the frames after it are counted.
Frame(elapsed) ==
    /\ race.countdownActive \/ raceCalls < MaxRaceCalls
    /\ raceCalls' = IF race.countdownActive THEN raceCalls
                    ELSE raceCalls + 1
    /\ RaceStep("update",
                RaceSystemUpdate(Bundle, systemWorld["race"],
                                 CappedDelta(elapsed, 0), StandingStill, now))
    /\ UNCHANGED <<away, circuits, worldVars, gameVars, twinVars>>
    /\ largestDelta' = IF race.countdownActive
                       THEN Max(largestDelta, CappedDelta(elapsed, 0))
                       ELSE largestDelta
    /\ countdownScenario' = OffScenario

\* raceSystem.startRace(), called from outside the countdown
CallStartRace ==
    /\ RaceCall("startRace", RaceStartRace(Bundle, systemWorld["race"], now))
    /\ away' = IF race.isRaceActive THEN away
               ELSE [e \in EntityIds |-> OnGrid.away]
    /\ circuits' = IF race.isRaceActive THEN circuits
                   ELSE [e \in EntityIds |-> OnGrid.circuits]
    /\ UNCHANGED largestDelta
    /\ countdownScenario' = OffScenario

\* raceSystem.endRace()
CallEndRace ==
    /\ RaceCall("endRace", EndRace(Bundle, systemWorld["race"]))
    /\ UNCHANGED <<away, circuits, largestDelta>>
    /\ countdownScenario' = OffScenario

(***************************************************************************)
(* NetworkIdentityComponent (unnamed/part_004) and NetworkSystem           *)
(* (unnamed/part_002).  Clock readings are in milliseconds.  The socket    *)
(* that connect() creates is the transport: what the system gives to       *)
(* socket.emit is kept in `outbox`, and the transport calls the handlers   *)
(* that registerMessageHandlers gave to socket.on when a message arrives.  *)
(***************************************************************************)
SyncInterval == 100      \* syncInterval = 100 (ms)
NoClient == Null         \* clientId = ''
LocalClient == 1         \* the id connect() is given: the local player's
RemoteClient == 2        \* the id of another client
NetIds == {1, 2, 3}      \* network ids; 3 is the id of no entity

\* new NetworkIdentityComponent(networkId, ownerId)
NewNetworkIdentity(networkId, ownerId) ==
    [networkId |-> networkId, ownerId |-> ownerId,
     isOwner |-> FALSE, isLocalPlayer |-> FALSE,
     syncPosition |-> TRUE, syncRotation |-> TRUE, syncScale |-> FALSE,
     syncVelocity |-> TRUE, syncInterval |-> SyncInterval,
     lastSyncTime |-> 0, isDirty |-> FALSE]

\* NetworkIdentityComponent.setAsLocalPlayer()
SetAsLocalPlayer(ni) == [ni EXCEPT !.isLocalPlayer = TRUE, !.isOwner = TRUE]

\* NetworkIdentityComponent.setSyncProperties(...)
SetSyncProperties(ni, syncPosition, syncRotation, syncScale, syncVelocity) ==
    [ni EXCEPT !.syncPosition = syncPosition, !.syncRotation = syncRotation,
               !.syncScale = syncScale, !.syncVelocity = syncVelocity]

\* NetworkIdentityComponent.markDirty()
MarkDirtyResult(ni) == [ni EXCEPT !.isDirty = TRUE]

\* currentTime - this.lastSyncTime >= this.syncInterval
IntervalElapsed(ni, currentTime) ==
    currentTime - ni.lastSyncTime >= ni.syncInterval

\* NetworkIdentityComponent.needsSync(currentTime): the component it leaves
\* and what it returns
NeedsSync(ni, currentTime) ==
    IF ~ni.isOwner THEN [ni |-> ni, ret |-> FALSE]
    ELSE IF ni.isDirty /\ IntervalElapsed(ni, currentTime)
    THEN [ni |-> [ni EXCEPT !.isDirty = FALSE, !.lastSyncTime = currentTime],
          ret |-> TRUE]
    ELSE [ni |-> ni, ret |-> FALSE]

\* the fields of a new NetworkSystem
NewNetworkSystem ==
    [socket |-> FALSE, clientId |-> NoClient, isConnected |-> FALSE,
     syncInterval |-> SyncInterval, lastSyncTime |-> 0,
     networkEntities |-> [id \in NetIds |-> Null]]

\* position, quaternion and scale of a new TransformComponent, and the
\* state of a new VehicleComponent; 0 stands for the value the constructor
\* gives, 1 and 2 for values that arrive in messages
NewTransform == [position |-> 0, quaternion |-> 0, scale |-> 0]
NewVehicleState == [velocity |-> 0, steeringAngle |-> 0, engineForce |-> 0,
                    brakingForce |-> 0]

\* TransformData and VehicleData of the messages that arrive; a scale of
\* Null is a message without scale
TransformDatas == [position : {1}, rotation : {1}, scale : {Null, 1}]
VehicleDatas == [velocity : {1, 2}, steeringAngle : {1}, engineForce : {1},
                 brakingForce : {1}]
Senders == {LocalClient, RemoteClient}
TransformMessages ==
    [type : {"transform"}, senderId : Senders, entityId : NetIds,
     timestamp : {0}, data : TransformDatas]
VehicleMessages ==
    [type : {"vehicle"}, senderId : Senders, entityId : NetIds,
     timestamp : {0}, data : VehicleDatas]

\* NetworkSystem.connect(serverUrl, clientId)
ConnectResult(n, clientId) ==
    IF n.isConnected THEN n
    ELSE [n EXCEPT !.clientId = clientId, !.socket = TRUE,
                   !.isConnected = TRUE]

\* NetworkSystem.disconnect()
DisconnectResult(n) ==
    IF ~n.isConnected \/ ~n.socket THEN n
    ELSE [n EXCEPT !.socket = FALSE, !.isConnected = FALSE]

\* NetworkSystem.registerNetworkEntity(entity)
RegisterNetworkEntityResult(n, ids, entity) ==
    IF GetComponent(entity, "networkIdentity") # Null
    THEN [n EXCEPT !.networkEntities[ids[entity].networkId] = entity]
    ELSE n

\* NetworkSystem.unregisterNetworkEntity(networkId)
UnregisterNetworkEntityResult(n, networkId) ==
    [n EXCEPT !.networkEntities[networkId] = Null]

\* Faulty variant: an update is taken for an echo when it is about the
\* local client's own entity
AboutSelf(n, message) == message.entityId = n.clientId

\* message.senderId === this.clientId
FromSelf(n, message) == message.senderId = n.clientId

\* Faulty variant: an update is applied to an entity this client owns
CanApplyOwned(nb, entity, type) ==
    /\ GetComponent(entity, "networkIdentity") # Null
    /\ GetComponent(entity, type) # Null

\* networkIdentity && transform && !networkIdentity.isOwner (and the same
\* with vehicle)
CanApply(nb, entity, type) ==
    /\ GetComponent(entity, "networkIdentity") # Null
    /\ GetComponent(entity, type) # Null
    /\ ~nb.identity[entity].isOwner

\* NetworkSystem.handleTransformUpdate(message)
HandleTransformUpdate(nb, message) ==
    IF FromSelf(nb.net, message) THEN nb
    ELSE
    LET entity == nb.net.networkEntities[message.entityId]
    IN  IF entity = Null THEN nb
        ELSE IF CanApply(nb, entity, "transform")
        THEN [nb EXCEPT !.transform[entity] =
                 [position |-> message.data.position,
                  quaternion |-> message.data.rotation,
                  scale |-> IF message.data.scale # Null
                            THEN message.data.scale
                            ELSE @.scale]]
        ELSE nb

\* NetworkSystem.handleVehicleUpdate(message)
HandleVehicleUpdate(nb, message) ==
    IF FromSelf(nb.net, message) THEN nb
    ELSE
    LET entity == nb.net.networkEntities[message.entityId]
    IN  IF entity = Null THEN nb
        ELSE IF CanApply(nb, entity, "vehicle")
        THEN [nb EXCEPT !.vehicleState[entity] =
                 [velocity |-> message.data.velocity,
                  steeringAngle |-> message.data.steeringAngle,
                  engineForce |-> message.data.engineForce,
                  brakingForce |-> message.data.brakingForce]]
        ELSE nb

\* NetworkSystem.sendTransformUpdate(entity, networkIdentity); t is
\* performance.now()
SendTransformUpdate(nb, entity, t) ==
    IF ~nb.net.isConnected \/ ~nb.net.socket THEN nb
    ELSE IF GetComponent(entity, "transform") = Null THEN nb
    ELSE [nb EXCEPT !.outbox = Append(@,
             [type |-> "transform", senderId |-> nb.net.clientId,
              entityId |-> nb.identity[entity].networkId, timestamp |-> t,
              data |-> [position |-> nb.transform[entity].position,
                        rotation |-> nb.transform[entity].quaternion,
                        scale |-> IF nb.identity[entity].syncScale
                                  THEN nb.transform[entity].scale
                                  ELSE Null]])]

\* NetworkSystem.sendVehicleUpdate(entity, networkIdentity)
SendVehicleUpdate(nb, entity, t) ==
    IF ~nb.net.isConnected \/ ~nb.net.socket THEN nb
    ELSE IF GetComponent(entity, "vehicle") = Null THEN nb
    ELSE [nb EXCEPT !.outbox = Append(@,
             [type |-> "vehicle", senderId |-> nb.net.clientId,
              entityId |-> nb.identity[entity].networkId, timestamp |-> t,
              data |-> nb.vehicleState[entity]])]

\* Faulty variant: the vehicle state of every synced car is sent
SendsVehicleAlways(ni, entity) == GetComponent(entity, "vehicle") # Null

\* networkIdentity.syncVelocity && entity.hasComponent(VEHICLE)
SendsVehicle(ni, entity) ==
    ni.syncVelocity /\ GetComponent(entity, "vehicle") # Null

\* the body of update's loop for one entity
SyncEntity(nb, entity, currentTime) ==
    IF GetComponent(entity, "networkIdentity") = Null
       \/ ~nb.identity[entity].isOwner
    THEN nb
    ELSE
    LET need == NeedsSync(nb.identity[entity], currentTime)
        asked == [nb EXCEPT !.identity[entity] = need.ni]
        ni == need.ni
        moved == IF ni.syncPosition \/ ni.syncRotation \/ ni.syncScale
                 THEN SendTransformUpdate(asked, entity, currentTime)
                 ELSE asked
    IN  IF ~need.ret THEN asked
        ELSE IF SendsVehicle(ni, entity)
        THEN SendVehicleUpdate(moved, entity, currentTime)
        ELSE moved

\* update's loop over the entities with a network identity
RECURSIVE SyncEntities(_, _, _)
SyncEntities(nb, list, currentTime) ==
    IF list = <<>> THEN nb
    ELSE SyncEntities(SyncEntity(nb, Head(list), currentTime), Tail(list),
                      currentTime)

\* Faulty variant: half the interval is enough
TooSoonByHalf(n, currentTime) ==
    2 * (currentTime - n.lastSyncTime) < n.syncInterval

\* currentTime - this.lastSyncTime < this.syncInterval
TooSoon(n, currentTime) == currentTime - n.lastSyncTime < n.syncInterval

\* update gets as far as its loop over the network entities
DoesSyncWork(n, w, currentTime) ==
    n.isConnected /\ w # Null /\ ~TooSoon(n, currentTime)

\* NetworkSystem.update(deltaTime); currentTime is performance.now()
NetworkSystemUpdate(nb, w, deltaTime, currentTime) ==
    IF ~DoesSyncWork(nb.net, w, currentTime) THEN nb
    ELSE [SyncEntities(nb, GetEntitiesWithComponents({"networkIdentity"}),
                       currentTime)
             EXCEPT !.net.lastSyncTime = currentTime]

MaxNetCalls == 5         \* calls of the network system in one behaviour
\* what performance.now() advances by between two updates, in ms
ClockSteps == {0, 50, 100}

NoNetOp == [op |-> "none", message |-> Null, entity |-> Null]

\* gameState = GameState.LOBBY
InitGame == gameStates = <<"LOBBY">>

\* One World as its constructor leaves it, with the local car of
\* createLocalPlayer in it, and the reading of performance.now() its
\* variable pass took last.
NewTwinWorld ==
    [lastFixedUpdateTime |-> 0, accumulator |-> 0, ticks |-> 0,
     callbacks |-> <<>>, vehicleState |-> NewVehicleState,
     transform |-> NewTransform, clock |-> 0, stamp |-> 0]

Copies == {1, 2}

InitTwin ==
    twin = [time |-> 0, frames |-> 0,
            inputs |-> [throttleInput |-> 0, brakeInput |-> 0,
                        steeringInput |-> 0],
            copy |-> [c \in Copies |-> NewTwinWorld]]

InitNetworkWith(ids) ==
    /\ net = NewNetworkSystem
    /\ identity = ids
    /\ transform = [e \in EntityIds |-> NewTransform]
    /\ vehicleState = [e \in EntityIds |-> NewVehicleState]
    /\ outbox = <<>>
    /\ netCalls = 0
    /\ netOp = NoNetOp
    /\ syncLog = <<>>

\* a world without networked entities
InitNetwork ==
    InitNetworkWith([e \in EntityIds |-> NewNetworkIdentity(e, e)])

NetBundle == [net |-> net, identity |-> identity, transform |-> transform,
              vehicleState |-> vehicleState, outbox |-> outbox]

\* a call of the network system, or of a component it works with, that
\* leaves nb behind
NetCall(op, message, entity, nb) ==
    /\ netCalls < MaxNetCalls
    /\ netCalls' = netCalls + 1
    /\ netOp' = [op |-> op, message |-> message, entity |-> entity]
    /\ net' = nb.net
    /\ identity' = nb.identity
    /\ transform' = nb.transform
    /\ vehicleState' = nb.vehicleState
    /\ outbox' = nb.outbox
    /\ UNCHANGED <<worldVars, entityVars, vehicleVars, passedTimestamps,
                   cpHasTransform, cpCalls, cpArg, cpRet, armed, lapVars,
                   raceVars, gameVars, twinVars>>

\* networkSystem.connect(serverUrl, localPlayerId)
Connect ==
    /\ NetCall("connect", Null, Null,
               [NetBundle EXCEPT !.net = ConnectResult(@, LocalClient)])
    /\ UNCHANGED <<now, syncLog>>

\* networkSystem.disconnect()
Disconnect ==
    /\ NetCall("disconnect", Null, Null,
               [NetBundle EXCEPT !.net = DisconnectResult(@)])
    /\ UNCHANGED <<now, syncLog>>

\* networkSystem.registerNetworkEntity(entity)
RegisterNetworkEntity(entity) ==
    /\ NetCall("register", Null, entity,
               [NetBundle EXCEPT
                   !.net = RegisterNetworkEntityResult(@, identity, entity)])
    /\ UNCHANGED <<now, syncLog>>

\* networkSystem.unregisterNetworkEntity(networkId)
UnregisterNetworkEntity(networkId) ==
    /\ NetCall("unregister", Null, networkId,
               [NetBundle EXCEPT
                   !.net = UnregisterNetworkEntityResult(@, networkId)])
    /\ UNCHANGED <<now, syncLog>>

\* networkIdentity.markDirty() on the identity of an entity
MarkDirty(entity) ==
    /\ GetComponent(entity, "networkIdentity") # Null
    /\ NetCall("markDirty", Null, entity,
               [NetBundle EXCEPT !.identity[entity] = MarkDirtyResult(@)])
    /\ UNCHANGED <<now, syncLog>>

\* the transport delivers a 'transform' message to the handler
ReceiveTransform(message) ==
    /\ net.socket
    /\ NetCall("transform", message, Null,
               HandleTransformUpdate(NetBundle, message))
    /\ UNCHANGED <<now, syncLog>>

\* the transport delivers a 'vehicle' message to the handler
ReceiveVehicle(message) ==
    /\ net.socket
    /\ NetCall("vehicle", message, Null,
               HandleVehicleUpdate(NetBundle, message))
    /\ UNCHANGED <<now, syncLog>>

\* networkSystem.update(deltaTime), `elapsed` ms after the call before
NetUpdate(elapsed, deltaTime) ==
    /\ now' = now + elapsed
    /\ NetCall("update", Null, Null,
               NetworkSystemUpdate(NetBundle, systemWorld["network"],
                                   deltaTime, now'))
    /\ syncLog' = IF DoesSyncWork(net, systemWorld["network"], now')
                  THEN Append(syncLog, now')
                  ELSE syncLog

(***************************************************************************)
(* VehicleComponent.fixedUpdate (unnamed/part_003).  The vectors of the    *)
(* code are counted along the car's forward axis, in whole steps: a force  *)
(* is counted in the velocity steps it adds in one fixed tick (force /     *)
(* mass * fixedDeltaTime), the position in the steps a velocity of 1 moves *)
(* the car in one tick, the heading in the turns one tick of steering      *)
(* makes.  At the speeds of the model the speed factor of updateSteering   *)
(* is 1.                                                                   *)
(***************************************************************************)
MaxEngineForce == 2      \* maxEngineForce, for a throttle of 1.0
MaxBrakingForce == 1     \* maxBrakingForce, for a brake of 1.0
MaxSteeringAngle == 30   \* maxSteeringAngle, degrees
ResistanceSteps == 4     \* the speed that drag and rolling resistance
                         \* lower by one step in a tick
MaxDriveTicks == 3       \* fixed ticks of the car in one behaviour

Abs(x) == IF x < 0 THEN 0 - x ELSE x
Sign(x) == IF x < 0 THEN 0 - 1 ELSE IF x > 0 THEN 1 ELSE 0

\* applyEngineForce, applyBrakingForce, updateSteering
ApplyControls(vs, throttle, brake, steering) ==
    [vs EXCEPT !.engineForce = (MaxEngineForce * throttle) \div InputOne,
               !.brakingForce = (MaxBrakingForce * brake) \div InputOne,
               !.steeringAngle = (MaxSteeringAngle * steering) \div InputOne]

\* the acceleration of one tick: the engine along the forward axis, the
\* brake against the velocity when the car moves, drag and rolling
\* resistance against the velocity
Acceleration(vs) ==
    vs.engineForce
        - (IF vs.brakingForce > 0 /\ vs.velocity # 0
           THEN Sign(vs.velocity) * vs.brakingForce ELSE 0)
        - Sign(vs.velocity) * (Abs(vs.velocity) \div ResistanceSteps)

\* Math.abs(this.steeringAngle) > 0.1 && this.velocity.lengthSq() > 0.1
Steers(vs) == vs.steeringAngle # 0 /\ vs.velocity # 0

\* fixedUpdate(fixedDeltaTime) with a transform: the controls, the new
\* velocity, the rotation of a steering car (which also points the
\* velocity forward), the new position
VehicleFixedUpdate(vs, tr, throttle, brake, steering) ==
    LET controlled == ApplyControls(vs, throttle, brake, steering)
        faster == [controlled EXCEPT !.velocity = @ + Acceleration(controlled)]
        turned == IF Steers(faster)
                  THEN [vs |-> [faster EXCEPT !.velocity = Abs(@)],
                        tr |-> [tr EXCEPT !.quaternion =
                                   @ + Sign(faster.steeringAngle)]]
                  ELSE [vs |-> faster, tr |-> tr]
    IN  [vehicleState |-> turned.vs,
         transform |-> [turned.tr EXCEPT
                           !.position = @ + turned.vs.velocity]]

\* component.fixedUpdate(fixedTimeStep) of World.update's fixed tick, for
\* the vehicle of an entity; a vehicle without a transform returns at once
FixedTick(entity) ==
    /\ totalTicks < MaxDriveTicks
    /\ totalTicks' = totalTicks + 1
    /\ GetComponent(entity, "vehicle") # Null
    /\ IF GetComponent(entity, "transform") = Null
       THEN UNCHANGED <<vehicleState, transform>>
       ELSE LET r == VehicleFixedUpdate(vehicleState[entity],
                                        transform[entity], throttleInput,
                                        brakeInput, steeringInput)
            IN  /\ vehicleState' = [vehicleState EXCEPT
                                       ![entity] = r.vehicleState]
                /\ transform' = [transform EXCEPT ![entity] = r.transform]
    /\ UNCHANGED <<entities, systems, entitiesToAdd, entitiesToRemove,
                   lastFixedUpdateTime, accumulator, pc, idx, cappedDeltaTime,
                   updateCalls, prevTime, ticks, varPasses, sumDelta, callLog,
                   queueLog, addOrder, systemWorld, entityVars, vehicleVars,
                   checkpointVars, lapVars, raceVars, gameVars, twinVars, net,
                   identity,
                   outbox, netCalls, netOp, syncLog>>

(***************************************************************************)
(* Actions of World                                                        *)
(***************************************************************************)
\* world.addSystem(s), called between frames.
AddSystem(s) ==
    /\ pc = "idle"
    /\ s \notin Range(systems)
    /\ systems' = AddSystemResult(systems, s)
    /\ systemWorld' = [systemWorld EXCEPT ![s] = SystemInit(s)]
    /\ addOrder' = Append(addOrder, s)
    /\ UNCHANGED <<entities, entitiesToAdd, entitiesToRemove,
                   lastFixedUpdateTime, accumulator, pc, idx, cappedDeltaTime,
                   updateCalls, prevTime, ticks, varPasses, totalTicks,
                   sumDelta, callLog, queueLog, entityVars, restVars>>

\* world.addEntity(e): by a collaborator between frames, or by a callback.
DoAddEntity(e) ==
    /\ Len(entitiesToAdd) < MaxQueue
    /\ LET r == AddEntityResult(entities, entitiesToAdd, e)
       IN  /\ entities' = r.entities
           /\ entitiesToAdd' = r.entitiesToAdd
    /\ UNCHANGED entitiesToRemove

\* world.removeEntity(e.id): by a collaborator between frames, or by a
\* callback.
DoRemoveEntity(e) ==
    /\ e \notin Range(entitiesToRemove)
    /\ Len(entitiesToRemove) < MaxQueue
    /\ LET r == RemoveEntityResult(entities, entitiesToRemove, e)
       IN  /\ entities' = r.entities
           /\ entitiesToRemove' = r.entitiesToRemove
    /\ UNCHANGED entitiesToAdd

AddEntity(e) ==
    /\ pc = "idle"
    /\ DoAddEntity(e)
    /\ UNCHANGED <<systems, systemWorld, lastFixedUpdateTime, accumulator, pc, idx,
                   cappedDeltaTime, updateCalls, prevTime, ticks, varPasses,
                   totalTicks, sumDelta, callLog, queueLog, addOrder, entityVars,
                   restVars>>

RemoveEntity(e) ==
    /\ pc = "idle"
    /\ DoRemoveEntity(e)
    /\ UNCHANGED <<systems, systemWorld, lastFixedUpdateTime, accumulator, pc, idx,
                   cappedDeltaTime, updateCalls, prevTime, ticks, varPasses,
                   totalTicks, sumDelta, callLog, queueLog, addOrder, entityVars,
                   restVars>>

\* world.update(currentTime) with currentTime = lastFixedUpdateTime + d, up
\* to its first callback (or its return).
Update(d) ==
    /\ pc = "idle"
    /\ updateCalls < MaxUpdates
    /\ updateCalls' = updateCalls + 1
    /\ lastFixedUpdateTime' = lastFixedUpdateTime + d
    /\ IF IsInitialFrame(lastFixedUpdateTime)
       THEN UNCHANGED <<entities, entitiesToAdd, entitiesToRemove,
                        accumulator, pc, idx, cappedDeltaTime, prevTime,
                        ticks, varPasses, totalTicks, sumDelta, callLog,
                        queueLog>>
       ELSE LET delta == CappedDelta(lastFixedUpdateTime + d,
                                     lastFixedUpdateTime)
                q == ProcessEntityQueue(entities, entitiesToAdd,
                                        entitiesToRemove)
                s == Settle("while", 0, accumulator + delta, 0, 0,
                            Len(systems), Len(FlatComponents(q.entities)))
            IN  /\ cappedDeltaTime' = delta
                /\ prevTime' = lastFixedUpdateTime
                /\ entities' = q.entities
                /\ queueLog' = q.log
                /\ entitiesToAdd' = <<>>
                /\ entitiesToRemove' = <<>>
                /\ sumDelta' = sumDelta + delta
                /\ pc' = s.pc
                /\ idx' = s.idx
                /\ accumulator' = s.acc
                /\ ticks' = s.ticks
                /\ varPasses' = s.varPasses
                /\ totalTicks' = totalTicks + s.ticks
                /\ callLog' = <<>>
    /\ UNCHANGED <<systems, systemWorld, addOrder, entityVars, restVars>>

\* What a callback does to the world: nothing, world.addEntity or
\* world.removeEntity.
NoEffect == [op |-> "none", e |-> Null]
Effects == {NoEffect} \cup [op : {"add", "remove"}, e : EntityIds]

ApplyEffect(eff) ==
    CASE eff.op = "add" -> DoAddEntity(eff.e)
      [] eff.op = "remove" -> DoRemoveEntity(eff.e)
      [] OTHER -> UNCHANGED <<entities, entitiesToAdd, entitiesToRemove>>

\* One callback of the running update, and the loop bookkeeping up to the
\* next one.
Dispatch(call, eff) ==
    /\ callLog' = Append(callLog, call)
    /\ ApplyEffect(eff)
    /\ LET s == Settle(pc, idx + 1, accumulator, ticks, varPasses,
                       Len(systems), Len(FlatComponents(entities)))
       IN  /\ pc' = s.pc
           /\ idx' = s.idx
           /\ accumulator' = s.acc
           /\ ticks' = s.ticks
           /\ varPasses' = s.varPasses
           /\ totalTicks' = totalTicks + (s.ticks - ticks)
    /\ UNCHANGED <<systems, systemWorld, lastFixedUpdateTime, cappedDeltaTime, updateCalls,
                   prevTime, sumDelta, queueLog, addOrder, entityVars,
                   restVars>>

\* system.fixedUpdate(this.fixedTimeStep), line 128
SystemFixedUpdate(eff) ==
    /\ pc = "fixedSystems"
    /\ Dispatch([fn |-> "System.fixedUpdate", sys |-> systems[idx],
                 comp |-> Null, dt |-> FixedTimeStep, tick |-> ticks], eff)

\* component.fixedUpdate(this.fixedTimeStep), line 134
ComponentFixedUpdate(eff) ==
    /\ pc = "fixedComponents"
    /\ Dispatch([fn |-> "Component.fixedUpdate", sys |-> "none",
                 comp |-> FlatComponents(entities)[idx],
                 dt |-> FixedTimeStep, tick |-> ticks], eff)

\* system.update(cappedDeltaTime), line 143
SystemUpdate(eff) ==
    /\ pc = "varSystems"
    /\ Dispatch([fn |-> "System.update", sys |-> systems[idx],
                 comp |-> Null, dt |-> cappedDeltaTime, tick |-> ticks], eff)

\* component.update(cappedDeltaTime), line 149
ComponentUpdate(eff) ==
    /\ pc = "varComponents"
    /\ Dispatch([fn |-> "Component.update", sys |-> "none",
                 comp |-> FlatComponents(entities)[idx],
                 dt |-> cappedDeltaTime, tick |-> ticks], eff)

\* World.update returns; its locals and the record of the call go.
UpdateReturn ==
    /\ pc = "return"
    /\ pc' = "idle"
    /\ cappedDeltaTime' = 0
    /\ prevTime' = 0
    /\ ticks' = 0
    /\ varPasses' = 0
    /\ callLog' = <<>>
    /\ queueLog' = <<>>
    /\ UNCHANGED <<entities, systems, systemWorld, entitiesToAdd, entitiesToRemove,
                   lastFixedUpdateTime, accumulator, idx, updateCalls,
                   totalTicks, sumDelta, addOrder, entityVars, restVars>>

(***************************************************************************)
(* Specifications of World                                                 *)
(***************************************************************************)
InitWorldWith(sys, order, ents) ==
    /\ entities = ents
    /\ systems = sys
    /\ systemWorld = [s \in SystemIds |->
                         IF s \in Range(sys) THEN SystemInit(s) ELSE Null]
    /\ entitiesToAdd = <<>>
    /\ entitiesToRemove = <<>>
    /\ lastFixedUpdateTime = 0
    /\ accumulator = 0
    /\ pc = "idle"
    /\ idx = 0
    /\ cappedDeltaTime = 0
    /\ updateCalls = 0
    /\ prevTime = 0
    /\ ticks = 0
    /\ varPasses = 0
    /\ totalTicks = 0
    /\ sumDelta = 0
    /\ callLog = <<>>
    /\ queueLog = <<>>
    /\ addOrder = order

InitWorld(sys, order) == InitWorldWith(sys, order, <<>>)

InitEntities(built) ==
    /\ components = built.components
    /\ entityOf = built.entityOf

\* The world of GameManager's constructor: new World(1/60), then
\* addSystem(networkSystem), addSystem(raceSystem).
GameWorldSystems == AddSystemResult(AddSystemResult(<<>>, "network"), "race")

\* Spec: the game's world, its entities added and removed between frames and
\* by callbacks, driven by ordinary frames.
Init ==
    /\ InitWorld(GameWorldSystems, <<"network", "race">>)
    /\ InitEntities(BuiltEntities)
    /\ InitVehicle
    /\ InitCheckpoint
    /\ InitLapCounter(<<3, 5>>)
    /\ InitRace(TRUE, TRUE)
    /\ InitNetwork
    /\ InitGame
    /\ InitTwin

Next ==
    \/ \E e \in EntityIds : AddEntity(e)
    \/ \E e \in EntityIds : RemoveEntity(e)
    \/ \E d \in FrameDeltas : Update(d)
    \/ \E eff \in Effects : SystemFixedUpdate(eff)
    \/ \E eff \in Effects : ComponentFixedUpdate(eff)
    \/ \E eff \in Effects : SystemUpdate(eff)
    \/ \E eff \in Effects : ComponentUpdate(eff)
    \/ UpdateReturn

Spec == Init /\ [][Next]_vars

\* SpecFrames: the game's world under every kind of frame gap, stalled
\* frames and repeated timestamps included; entities are only added.
NextFrames ==
    \/ \E e \in EntityIds : AddEntity(e)
    \/ \E d \in StallDeltas : Update(d)
    \/ SystemFixedUpdate(NoEffect)
    \/ ComponentFixedUpdate(NoEffect)
    \/ SystemUpdate(NoEffect)
    \/ ComponentUpdate(NoEffect)
    \/ UpdateReturn

SpecFrames == Init /\ [][NextFrames]_vars

\* SpecSystems: a bare World to which systems are added in any order.
NextSystems ==
    \/ \E s \in SystemIds : AddSystem(s)
    \/ \E d \in FrameDeltas : Update(d)
    \/ SystemFixedUpdate(NoEffect)
    \/ SystemUpdate(NoEffect)
    \/ UpdateReturn

InitSystems ==
    /\ InitWorld(<<>>, <<>>)
    /\ InitEntities(BuiltEntities)
    /\ InitVehicle
    /\ InitCheckpoint
    /\ InitLapCounter(<<3, 5>>)
    /\ InitRace(TRUE, TRUE)
    /\ InitNetwork
    /\ InitGame
    /\ InitTwin

SpecSystems == InitSystems /\ [][NextSystems]_vars

(***************************************************************************)
(* Specification of Entity: components attached and detached               *)
(***************************************************************************)
AddComponent(e, c) ==
    /\ LET r == AddComponentResult(components, entityOf, e, c)
       IN  /\ components' = r.components
           /\ entityOf' = r.entityOf
    /\ UNCHANGED <<worldVars, restVars>>

RemoveComponent(e, type) ==
    /\ LET r == RemoveComponentResult(components, entityOf, e, type)
       IN  /\ components' = r.components
           /\ entityOf' = r.entityOf
    /\ UNCHANGED <<worldVars, restVars>>

InitEntity ==
    /\ InitWorld(<<>>, <<>>)
    /\ InitEntities(NoComponents)
    /\ InitVehicle
    /\ InitCheckpoint
    /\ InitLapCounter(<<3, 5>>)
    /\ InitRace(TRUE, TRUE)
    /\ InitNetwork
    /\ InitGame
    /\ InitTwin

NextEntity ==
    \/ \E e \in EntityIds, c \in CompIds : AddComponent(e, c)
    \/ \E e \in EntityIds, type \in Types : RemoveComponent(e, type)

SpecEntity == InitEntity /\ [][NextEntity]_vars

(***************************************************************************)
(* Specification of VehicleComponent's inputs                              *)
(***************************************************************************)
NextVehicle ==
    \E throttle \in Inputs, brake \in Inputs, steering \in Inputs :
        SetInputs(throttle, brake, steering)

SpecVehicle == InitEntity /\ [][NextVehicle]_vars

(***************************************************************************)
(* Specification of one LapCounterComponent                                *)
(***************************************************************************)
Racer == 1

InitLap ==
    /\ InitWorld(<<>>, <<>>)
    /\ InitEntities(NoComponents)
    /\ InitVehicle
    /\ InitCheckpoint
    /\ \E cfg \in LapConfigs : InitLapCounter(cfg)
    /\ InitRace(TRUE, TRUE)
    /\ InitNetwork
    /\ InitGame
    /\ InitTwin

NextLap ==
    \/ StartRace(Racer)
    \/ \E index \in CheckpointIndexes : PassCheckpoint(Racer, index)

SpecLap == InitLap /\ [][NextLap]_vars

(***************************************************************************)
(* Specification of the RaceSystem in the game's world                     *)
(***************************************************************************)
\* The track and a car as GameManager builds them: entity 1 is the car
\* (transform, vehicle, lap counter), entity 2 the start/finish checkpoint
\* (transform, checkpoint).
RaceEntities ==
    LET none == [components |-> [e \in EntityIds |-> <<>>],
                 entityOf |-> [c \in CompIds \cup {5, 6} |-> Null]]
        a == AddComponentResult(none.components, none.entityOf, 1, 1)
        b == AddComponentResult(a.components, a.entityOf, 1, 2)
        c == AddComponentResult(b.components, b.entityOf, 1, 5)
        d == AddComponentResult(c.components, c.entityOf, 2, 3)
    IN  AddComponentResult(d.components, d.entityOf, 2, 6)

\* The game's world once a frame has put the track and the car into the
\* registry; the race system idle, with or without its callbacks.
InitRaceWorld ==
    /\ InitWorldWith(GameWorldSystems, <<"network", "race">>, <<2, 1>>)
    /\ InitEntities(RaceEntities)
    /\ InitVehicle
    /\ InitCheckpoint
    /\ InitLapCounter(<<3, 5>>)
    /\ \E onRaceStart \in BOOLEAN, onCountdownTick \in BOOLEAN :
           InitRace(onRaceStart, onCountdownTick)
    /\ InitNetwork
    /\ InitGame
    /\ InitTwin

NextRace ==
    \/ StartCountdown
    \/ RegisterCheckpoints
    \/ \E deltaTime \in RaceDeltas, distances \in RaceDistances :
          RaceUpdate(deltaTime, distances)

SpecRace == InitRaceWorld /\ [][NextRace]_vars

\* SpecRaceCalls: the same world, with startRace and endRace called from
\* outside as well, in any order with the countdown and the updates.
NextRaceCalls ==
    \/ StartCountdown
    \/ CallStartRace
    \/ CallEndRace
    \/ \E deltaTime \in RaceDeltas, distances \in RaceDistances :
          RaceUpdate(deltaTime, distances)

SpecRaceCalls == InitRaceWorld /\ [][NextRaceCalls]_vars

\* SpecCountdown: one countdown, driven by the frames of World.update and
\* by direct calls of update with longer steps.
NextCountdown ==
    \/ StartCountdown
    \/ \E elapsed \in CountdownFrames : Frame(elapsed)
    \/ \E deltaTime \in RaceDeltas : RaceUpdate(deltaTime, StandingStill)

SpecCountdown == InitRaceWorld /\ [][NextCountdown]_vars

(***************************************************************************)
(* Specification of a race of two cars                                     *)
(***************************************************************************)
\* The track and two cars as GameManager builds them: entities 1 and 2 are
\* the cars A and B (transform, vehicle, lap counter), entity 3 is the
\* start/finish checkpoint (transform, checkpoint).  A is the local
\* player's car, LapCounterComponent(laps, 5); B is a remote player's,
\* LapCounterComponent(laps, 0).
CarA == 1
CarB == 2
GridEntities ==
    LET none == [components |-> [e \in 1..3 |-> <<>>],
                 entityOf |-> [c \in 1..8 |-> Null]]
        a == AddComponentResult(none.components, none.entityOf, CarA, 1)
        b == AddComponentResult(a.components, a.entityOf, CarA, 2)
        c == AddComponentResult(b.components, b.entityOf, CarA, 5)
        d == AddComponentResult(c.components, c.entityOf, CarB, 3)
        e == AddComponentResult(d.components, d.entityOf, CarB, 4)
        f == AddComponentResult(e.components, e.entityOf, CarB, 7)
        g == AddComponentResult(f.components, f.entityOf, 3, 8)
    IN  AddComponentResult(g.components, g.entityOf, 3, 6)

\* The game's world once a frame has put the track and the cars into the
\* registry; the race system idle, its callbacks installed.
InitGrid ==
    /\ InitWorldWith(GameWorldSystems, <<"network", "race">>, <<3, 1, 2>>)
    /\ InitEntities(GridEntities)
    /\ InitVehicle
    /\ InitCheckpoint
    /\ lapCounter = [e \in EntityIds |->
                        IF e = CarA
                        THEN NewLapCounter(DefaultTotalLaps,
                                           FallbackCheckpoints)
                        ELSE NewLapCounter(DefaultTotalLaps, 0)]
    /\ lapCalls = 0
    /\ lapArg = NoPass
    /\ lapRet = FALSE
    /\ scenario = Diverged
    /\ InitRace(TRUE, TRUE)
    /\ InitNetwork
    /\ InitGame
    /\ InitTwin

SpecGrid == InitGrid /\ [][NextRace]_vars

(***************************************************************************)
(* GameManager (unnamed/part_000): a single-player game                    *)
(* startSinglePlayerGame builds the track and the local car, starts the    *)
(* loop and the countdown.  A frame of the loop is World.update: LoopFrame *)
(* is the call as far as the end of the fixed ticks, VariablePass the      *)
(* update of the systems that follows in the same call.  Components the    *)
(* race does not look at (mesh, input controller) are left out.            *)
(***************************************************************************)
TrackCheckpoints == 5    \* trackSegments.length; new LapCounterComponent(laps, 5)
\* the checkpoint entities of createTrack, in index order
TrackEntities == <<3, 4, 5, 6, 7>>
\* trackInfo.numLaps
NumLaps == {1, 2, 3}
\* performance.now() when GameLoop.start() runs, in ms
LoopStart == 100

\* this.trackInfo?.numLaps || 3
LapsOrDefault(numLaps) == IF numLaps = 0 THEN DefaultTotalLaps ELSE numLaps

\* createCheckpoint for each segment, then createLocalPlayer: the track's
\* entities carry a transform and a checkpoint, the car a transform, a
\* vehicle, a network identity and a lap counter
RECURSIVE WithCheckpoints(_, _)
WithCheckpoints(built, list) ==
    IF list = <<>> THEN built
    ELSE LET e == Head(list)
             t == AddComponentResult(built.components, built.entityOf,
                                     e, 20 + e)
         IN  WithCheckpoints(
                 AddComponentResult(t.components, t.entityOf, e, 30 + e),
                 Tail(list))

NoGameEntities == [components |-> [e \in 1..7 |-> <<>>],
                   entityOf |-> [c \in 1..37 |-> Null]]

SinglePlayerEntities ==
    LET track == WithCheckpoints(NoGameEntities, TrackEntities)
        a == AddComponentResult(track.components, track.entityOf, CarA, 1)
        b == AddComponentResult(a.components, a.entityOf, CarA, 2)
        c == AddComponentResult(b.components, b.entityOf, CarA, 9)
    IN  AddComponentResult(c.components, c.entityOf, CarA, 5)

\* world.addEntity for each entity of a list
RECURSIVE AddEntities(_, _)
AddEntities(toAdd, list) ==
    IF list = <<>> THEN toAdd
    ELSE AddEntities(AddEntityResult(<<>>, toAdd, Head(list)).entitiesToAdd,
                     Tail(list))

GameState == gameStates[Len(gameStates)]

\* setGameState(state)
SetGameState(states, state) ==
    IF states[Len(states)] = state THEN states ELSE Append(states, state)

\* the callbacks GameManager gave the race system, run for the
\* notifications of a call
RECURSIVE AfterCallbacks(_, _)
AfterCallbacks(states, notes) ==
    IF notes = <<>> THEN states
    ELSE AfterCallbacks(
             IF Head(notes).kind = "raceStart"
             THEN SetGameState(states, "RACING")
             ELSE IF Head(notes).kind = "raceEnd"
             THEN SetGameState(states, "FINISHED")
             ELSE states,
             Tail(notes))

\* RaceSystem.configure(totalLaps)
Configure(b, totalLaps) == [b EXCEPT !.race.totalLaps = totalLaps]

\* the fixed-tick loop of World.update, its callbacks left out
RECURSIVE AfterFixedTicks(_)
AfterFixedTicks(acc) ==
    IF LoopCondition(acc) THEN AfterFixedTicks(acc - FixedTimeStep) ELSE acc

\* startSinglePlayerGame(trackInfo)
StartSinglePlayerGame(numLaps) ==
    /\ GameState = "LOBBY"
    /\ pc = "idle"
    /\ raceCalls < MaxRaceCalls
    /\ raceCalls' = raceCalls + 1
    /\ components' = SinglePlayerEntities.components
    /\ entityOf' = SinglePlayerEntities.entityOf
    /\ entitiesToAdd' = AddEntities(entitiesToAdd, TrackEntities \o <<CarA>>)
    /\ lastFixedUpdateTime' = IF IsInitialFrame(lastFixedUpdateTime)
                              THEN LoopStart ELSE lastFixedUpdateTime
    /\ LET configured == Configure(Bundle, numLaps)
           registered == RegisterCheckpointsResult(configured,
                                                   systemWorld["race"])
           player == [registered EXCEPT
                         !.lapCounter[CarA] =
                             NewLapCounter(LapsOrDefault(numLaps),
                                           TrackCheckpoints)]
           counting == StartCountdownResult(player)
       IN  /\ race' = counting.race
           /\ lapCounter' = counting.lapCounter
           /\ passedTimestamps' = counting.passedTimestamps
           /\ raceLog' = counting.log
           /\ gameStates' =
                  AfterCallbacks(
                      SetGameState(SetGameState(gameStates, "LOADING"),
                                   "COUNTDOWN"),
                      SubSeq(counting.log, Len(raceLog) + 1,
                             Len(counting.log)))
    /\ raceOp' = "startCountdown"
    /\ largestDelta' = 0
    /\ countdownScenario' = OffScenario
    /\ identity' = [identity EXCEPT ![CarA] =
                        SetAsLocalPlayer(NewNetworkIdentity(LocalClient,
                                                            LocalClient))]
    /\ UNCHANGED <<entities, systems, entitiesToRemove, accumulator, pc, idx,
                   cappedDeltaTime, updateCalls, prevTime, ticks, varPasses,
                   totalTicks, sumDelta, callLog, queueLog, addOrder,
                   systemWorld, vehicleVars, cpHasTransform, now, cpCalls,
                   cpArg, cpRet, armed, lapCalls, lapArg, lapRet, scenario,
                   away, circuits, net, transform, vehicleState, outbox,
                   netCalls, netOp, syncLog, twinVars>>

\* GameLoop.loop(time): world.update(time) up to the end of its fixed
\* ticks, `elapsed` ms after the frame before.  The frames of a countdown
\* end with the countdown; the frames after it are counted.
LoopFrame(elapsed) ==
    /\ GameState # "LOBBY"
    /\ pc = "idle"
    /\ race.countdownActive \/ raceCalls < MaxRaceCalls
    /\ lastFixedUpdateTime' = lastFixedUpdateTime + elapsed
    /\ LET delta == CappedDelta(lastFixedUpdateTime + elapsed,
                                lastFixedUpdateTime)
           q == ProcessEntityQueue(entities, entitiesToAdd, entitiesToRemove)
       IN  /\ cappedDeltaTime' = delta
           /\ entities' = q.entities
           /\ accumulator' = AfterFixedTicks(accumulator + delta)
    /\ entitiesToAdd' = <<>>
    /\ entitiesToRemove' = <<>>
    /\ pc' = "varSystems"
    /\ UNCHANGED <<systems, idx, updateCalls, prevTime, ticks, varPasses,
                   totalTicks, sumDelta, callLog, queueLog, addOrder,
                   systemWorld, entityVars, restVars>>

\* the variable pass of the same World.update: networkSystem.update
\* returns at once (the game is not connected), raceSystem.update runs with
\* the capped frame time, and its callbacks set the game state.
VariablePass(distances) ==
    /\ pc = "varSystems"
    /\ pc' = "idle"
    /\ UNCHANGED <<entities, systems, entitiesToAdd, entitiesToRemove,
                   lastFixedUpdateTime, accumulator, idx, cappedDeltaTime,
                   updateCalls, prevTime, ticks, varPasses, totalTicks,
                   sumDelta, callLog, queueLog, addOrder, systemWorld>>
    /\ raceCalls' = IF race.countdownActive THEN raceCalls
                    ELSE raceCalls + 1
    /\ LET b == RaceSystemUpdate(Bundle, systemWorld["race"],
                                 cappedDeltaTime, distances, now)
       IN  /\ RaceStep("update", b)
           /\ gameStates' =
                  AfterCallbacks(gameStates,
                                 SubSeq(b.log, Len(raceLog) + 1, Len(b.log)))
    /\ LET seen == SeenBy(cappedDeltaTime, distances)
       IN  /\ away' = [e \in EntityIds |-> seen[e].away]
           /\ circuits' = [e \in EntityIds |-> seen[e].circuits]
    /\ largestDelta' = IF race.countdownActive
                       THEN Max(largestDelta, cappedDeltaTime)
                       ELSE largestDelta
    /\ countdownScenario' = OffScenario
    /\ UNCHANGED twinVars

\* where the local car is when a frame looks; no second car
SoloDistances == {d \in RaceDistances : d[CarB] = 0}

InitGameWorld ==
    /\ InitWorld(GameWorldSystems, <<"network", "race">>)
    /\ InitEntities(NoGameEntities)
    /\ InitVehicle
    /\ InitCheckpoint
    /\ InitLapCounter(<<DefaultTotalLaps, 0>>)
    /\ InitRace(TRUE, TRUE)
    /\ InitNetwork
    /\ InitGame
    /\ InitTwin

NextGame ==
    \/ \E numLaps \in NumLaps : StartSinglePlayerGame(numLaps)
    \/ \E elapsed \in CountdownFrames : LoopFrame(elapsed)
    \/ \E distances \in SoloDistances : VariablePass(distances)

SpecGame == InitGameWorld /\ [][NextGame]_vars

(***************************************************************************)
(* Specification of the NetworkSystem in the game's world                  *)
(***************************************************************************)
\* Two cars as GameManager builds them: entity 1 is the local player's
\* (transform, vehicle, network identity set as local player), entity 2 a
\* remote player's (transform, vehicle, network identity).
NetworkEntities ==
    LET none == [components |-> [e \in EntityIds |-> <<>>],
                 entityOf |-> [c \in 1..10 |-> Null]]
        a == AddComponentResult(none.components, none.entityOf, 1, 1)
        b == AddComponentResult(a.components, a.entityOf, 1, 2)
        c == AddComponentResult(b.components, b.entityOf, 1, 9)
        d == AddComponentResult(c.components, c.entityOf, 2, 3)
        e == AddComponentResult(d.components, d.entityOf, 2, 4)
    IN  AddComponentResult(e.components, e.entityOf, 2, 10)

LocalCar == 1
\* the identities of the two cars; the local car syncs its velocity or not
NetworkIdentities(syncVelocity) ==
    [e \in EntityIds |->
        IF e = 1
        THEN SetSyncProperties(
                 SetAsLocalPlayer(NewNetworkIdentity(LocalClient,
                                                     LocalClient)),
                 TRUE, TRUE, FALSE, syncVelocity)
        ELSE NewNetworkIdentity(RemoteClient, RemoteClient)]

InitNetworkWorld ==
    /\ InitWorldWith(GameWorldSystems, <<"network", "race">>, <<1, 2>>)
    /\ InitEntities(NetworkEntities)
    /\ InitVehicle
    /\ InitCheckpoint
    /\ InitLapCounter(<<3, 5>>)
    /\ InitRace(TRUE, TRUE)
    /\ \E syncVelocity \in BOOLEAN :
           InitNetworkWith(NetworkIdentities(syncVelocity))
    /\ InitGame
    /\ InitTwin

NextNetwork ==
    \/ Connect
    \/ Disconnect
    \/ \E entity \in EntityIds : RegisterNetworkEntity(entity)
    \/ \E networkId \in NetIds : UnregisterNetworkEntity(networkId)
    \/ \E entity \in EntityIds : MarkDirty(entity)
    \/ \E message \in TransformMessages : ReceiveTransform(message)
    \/ \E message \in VehicleMessages : ReceiveVehicle(message)
    \/ \E elapsed \in ClockSteps, deltaTime \in FrameDeltas :
          NetUpdate(elapsed, deltaTime)

SpecNetwork == InitNetworkWorld /\ [][NextNetwork]_vars

\* throttle, brake and steering of the driver: full throttle, full throttle
\* with the wheel turned, and braking in reverse
DriveInputs == {<<InputOne, 0, 0>>, <<InputOne, 0, InputOne>>,
                <<0 - InputOne, InputOne, 0>>}

\* SpecDrive: the two cars in a connected game; the local car is driven by
\* the fixed ticks of the simulation, and the frames update the network
\* system.  Nothing in src/ calls markDirty, so no action does.
NextDrive ==
    \/ Connect
    \/ \E in \in DriveInputs : SetInputs(in[1], in[2], in[3])
    \/ FixedTick(LocalCar)
    \/ \E elapsed \in ClockSteps, deltaTime \in FrameDeltas :
          NetUpdate(elapsed, deltaTime)

SpecDrive == InitNetworkWorld /\ [][NextDrive]_vars

(***************************************************************************)
(* Two copies of the game's World, driven side by side                     *)
(***************************************************************************)
MaxTwinFrames == 4       \* World.update calls given to the two copies
WallGaps == {10, 30}     \* ms a copy's performance.now() moves on between
                         \* two of its frames

\* the systems and the components World.update calls back, in the order of
\* this.systems and of getAllComponents of the one entity
TwinSystems == GameWorldSystems
TwinComponents == SinglePlayerEntities.components[CarA]

\* Faulty variant: a frame time taken from the clock, not from the argument
DeltaTimeByClock(w, currentTime) ==
    CappedDelta(w.clock, w.lastFixedUpdateTime)

\* World.update, lines 109-114: the frame time comes from the argument
\* currentTime and the field lastFixedUpdateTime alone.
DeltaTime(w, currentTime) == CappedDelta(currentTime, w.lastFixedUpdateTime)

\* the number of passes of the fixed-tick loop that starts with `acc`
RECURSIVE FixedTicksOf(_)
FixedTicksOf(acc) ==
    IF LoopCondition(acc) THEN 1 + FixedTicksOf(acc - FixedTimeStep) ELSE 0

\* one pass over the systems and one over the components, lines 127-136 and
\* 142-151
PassCalls(systemFn, componentFn, dt, tick) ==
    [i \in 1..Len(TwinSystems) |->
        [fn |-> systemFn, sys |-> TwinSystems[i], comp |-> Null, dt |-> dt,
         tick |-> tick]]
    \o [i \in 1..Len(TwinComponents) |->
           [fn |-> componentFn, sys |-> "none", comp |-> TwinComponents[i],
            dt |-> dt, tick |-> tick]]

\* the callbacks of the fixed ticks k+1 .. n of one update
RECURSIVE FixedCalls(_, _)
FixedCalls(k, n) ==
    IF k >= n THEN <<>>
    ELSE PassCalls("System.fixedUpdate", "Component.fixedUpdate",
                   FixedTimeStep, k) \o FixedCalls(k + 1, n)

\* the car after n fixed ticks: only VehicleComponent overrides fixedUpdate
RECURSIVE Driven(_, _, _, _)
Driven(vs, tr, inputs, n) ==
    IF n = 0 THEN [vehicleState |-> vs, transform |-> tr]
    ELSE LET r == VehicleFixedUpdate(vs, tr, inputs.throttleInput,
                                     inputs.brakeInput, inputs.steeringInput)
         IN  Driven(r.vehicleState, r.transform, inputs, n - 1)

\* world.update(currentTime) of one copy, whose performance.now() reads
\* `clock` during the call: the variable pass reads it (RaceSystem.ts line
\* 206, part_002 line 337), the fixed ticks are given fixedTimeStep.
TwinWorldUpdate(w0, currentTime, inputs, clock) ==
    LET w == [w0 EXCEPT !.clock = clock]
    IN  IF IsInitialFrame(w.lastFixedUpdateTime)
        THEN [w EXCEPT !.lastFixedUpdateTime = currentTime, !.ticks = 0,
                       !.callbacks = <<>>]
        ELSE LET delta == DeltaTime(w, currentTime)
                 acc == w.accumulator + delta
                 n == FixedTicksOf(acc)
                 car == Driven(w.vehicleState, w.transform, inputs, n)
             IN  [lastFixedUpdateTime |-> currentTime,
                  accumulator |-> acc - n * FixedTimeStep,
                  ticks |-> n,
                  callbacks |-> FixedCalls(0, n)
                                \o PassCalls("System.update",
                                             "Component.update", delta, n),
                  vehicleState |-> car.vehicleState,
                  transform |-> car.transform,
                  clock |-> clock,
                  stamp |-> clock]

\* vehicle.setInputs(throttle, brake, steering) on the car of both copies
TwinSetInputs(throttle, brake, steering) ==
    /\ twin.frames < MaxTwinFrames
    /\ twin.inputs # SetInputsResult(throttle, brake, steering)
    /\ twin' = [twin EXCEPT
                   !.inputs = SetInputsResult(throttle, brake, steering)]
    /\ UNCHANGED <<worldVars, entityVars, vehicleVars, checkpointVars,
                   lapVars, raceVars, networkVars, gameVars>>

\* world.update(currentTime) on both copies with the same currentTime, the
\* first one at the loop's start and each later one `elapsed` ms after the
\* one before; each copy's own clock has moved on by its own gap.
TwinUpdate(elapsed, gaps) ==
    /\ twin.frames < MaxTwinFrames
    /\ LET currentTime == IF twin.frames = 0 THEN LoopStart
                          ELSE twin.time + elapsed
       IN  twin' = [twin EXCEPT
                       !.time = currentTime,
                       !.frames = @ + 1,
                       !.copy = [c \in Copies |->
                                    TwinWorldUpdate(twin.copy[c], currentTime,
                                                    twin.inputs,
                                                    twin.copy[c].clock
                                                        + gaps[c])]]
    /\ UNCHANGED <<worldVars, entityVars, vehicleVars, checkpointVars,
                   lapVars, raceVars, networkVars, gameVars>>

NextTwin ==
    \/ \E in \in DriveInputs : TwinSetInputs(in[1], in[2], in[3])
    \/ \E elapsed \in FrameDeltas, gaps \in [Copies -> WallGaps] :
           TwinUpdate(elapsed, gaps)

SpecTwin == InitGameWorld /\ [][NextTwin]_vars

(***************************************************************************)
(* Specification of one CheckpointComponent                                *)
(***************************************************************************)
NextCheckpoint ==
    \/ CheckpointAttach
    \/ ClockTick
    \/ \E v \in VehicleIds, distance \in Distances :
          CheckVehiclePassing(v, distance)

SpecCheckpoint == InitEntity /\ [][NextCheckpoint]_vars

(***************************************************************************)
(* Claims                                                                  *)
(***************************************************************************)
IsFixedCall(c) == c.fn \in {"System.fixedUpdate", "Component.fixedUpdate"}
IsSystemCall(c) == c.fn \in {"System.fixedUpdate", "System.update"}
\* two callbacks of the same fixed tick, or both of the variable pass
SamePass(a, b) == IsFixedCall(a) = IsFixedCall(b) /\ a.tick = b.tick
\* a step that is a World.update call which simulates
SimulatingUpdate == pc = "idle" /\ pc' # "idle"

\* C1: addEntity and removeEntity only enqueue.  The registry (what
\* getEntity / getAllEntities return) changes in no step but the start of a
\* simulating World.update call: not when a collaborator calls addEntity or
\* removeEntity between frames, and not while the callbacks of an update run,
\* whatever they enqueue.
C1_EnqueueOnly ==
    [][entities' # entities =>
          SimulatingUpdate /\ updateCalls' = updateCalls + 1]_vars

\* C1 witness: an update is running, a callback has queued an entity that is
\* not in the registry and the removal of one that is.
C1_Witness ==
    /\ pc \in {"fixedComponents", "varSystems", "varComponents"}
    /\ entitiesToAdd # <<>>
    /\ entitiesToAdd[1] \notin Range(entities)
    /\ \E e \in Range(entitiesToRemove) : e \in Range(entities)

\* C2: accumulator conservation.  After every update call, with D the sum
\* of the capped deltas and n the number of fixed ticks run so far,
\* n * fixedTimeStep <= D < (n + 1) * fixedTimeStep, and
\* 0 <= accumulator < fixedTimeStep.
C2_AccumulatorConservation ==
    pc \in {"idle", "return"} =>
        /\ totalTicks * FixedTimeStep <= sumDelta
        /\ sumDelta < (totalTicks + 1) * FixedTimeStep
        /\ 0 <= accumulator
        /\ accumulator < FixedTimeStep

\* C2 witness: a stalled frame and an ordinary one have been simulated and a
\* rest is carried in the accumulator.
C2_Witness ==
    pc = "idle" /\ updateCalls = 3 /\ totalTicks >= 16 /\ accumulator > 0

\* C3 (as claimed): of all World.update calls, the first one and only the
\* first one returns without simulating; every later call runs its loops.
C3_OnlyFirstCallIsBaseline ==
    [][updateCalls' = updateCalls + 1 =>
          IF updateCalls = 0 THEN pc' = "idle" ELSE pc' # "idle"]_vars

\* C4: within one World.update call the callbacks are ordered: every fixed
\* tick before the variable pass, the fixed ticks one after the other, and
\* inside each fixed tick and inside the variable pass every system (in
\* ascending priority) before any component; a component is reached only
\* when every system has been called in that pass, and a later pass only when
\* the earlier fixed ticks have called every system and every component.
C4_DispatchOrder ==
    /\ \A i, j \in 1..Len(callLog) :
          i < j =>
            LET a == callLog[i]
                b == callLog[j]
            IN  /\ ~IsFixedCall(a) => ~IsFixedCall(b)
                /\ IsFixedCall(a) /\ IsFixedCall(b) => a.tick <= b.tick
                /\ SamePass(a, b) =>
                      /\ ~(~IsSystemCall(a) /\ IsSystemCall(b))
                      /\ IsSystemCall(a) /\ IsSystemCall(b) =>
                            Priority(a.sys) <= Priority(b.sys)
    /\ \A j \in 1..Len(callLog) :
          LET b == callLog[j]
          IN  /\ ~IsSystemCall(b) =>
                    \A s \in Range(systems) :
                       \E i \in 1..(j - 1) :
                          /\ SamePass(callLog[i], b)
                          /\ callLog[i].sys = s
              /\ \A k \in 0..(b.tick - 1) :
                    /\ \A s \in Range(systems) :
                          \E i \in 1..(j - 1) :
                             /\ callLog[i].fn = "System.fixedUpdate"
                             /\ callLog[i].tick = k
                             /\ callLog[i].sys = s
                    /\ \A c \in Range(FlatComponents(entities)) :
                          \E i \in 1..(j - 1) :
                             /\ callLog[i].fn = "Component.fixedUpdate"
                             /\ callLog[i].tick = k
                             /\ callLog[i].comp = c

\* C4 witness: an update with two entities in the world has run at least two
\* fixed ticks and its variable pass.
C4_Witness ==
    /\ pc = "return"
    /\ ticks >= 2
    /\ Len(entities) = 2
    /\ Len(callLog) = (ticks + 1) * (Len(systems) + 3)

\* C5: whatever the order of the addSystem calls, the system list is sorted
\* ascending by priority and holds the systems added, and in every fixed tick
\* and every variable pass the NetworkSystem (-10) is called before the
\* RaceSystem (0).
C5_SystemsSorted ==
    /\ \A i, j \in 1..Len(systems) :
          i < j => Priority(systems[i]) <= Priority(systems[j])
    /\ Len(systems) = Len(addOrder)
    /\ Range(systems) = Range(addOrder)
    /\ \A j \in 1..Len(callLog) :
          (callLog[j].sys = "race" /\ "network" \in Range(addOrder)) =>
             \E i \in 1..(j - 1) :
                /\ callLog[i].sys = "network"
                /\ callLog[i].fn = callLog[j].fn
                /\ callLog[i].tick = callLog[j].tick

\* C5 witness: the systems were added from the highest priority value down
\* and an update has run a fixed tick and the variable pass over them.
C5_Witness ==
    /\ addOrder = <<"race", "other", "network">>
    /\ pc = "return"
    /\ ticks >= 1

\* C6: in a simulating call the delta handed to update callbacks is
\* min((currentTime - lastTime) / 1000, 0.25); what the call adds to the
\* accumulator is that delta, never more than 0.25 s; and the call runs at
\* most 15 fixed ticks.
C6_CappedDelta ==
    /\ [](pc # "idle" =>
            /\ cappedDeltaTime =
                  Min((lastFixedUpdateTime - prevTime) * UnitsPerMs,
                      MaxDeltaTime)
            /\ \A i \in 1..Len(callLog) :
                  ~IsFixedCall(callLog[i]) => callLog[i].dt = cappedDeltaTime
            /\ ticks <= 15)
    /\ [][SimulatingUpdate =>
             /\ (accumulator' + ticks' * FixedTimeStep) - accumulator
                   = cappedDeltaTime'
             /\ (accumulator' + ticks' * FixedTimeStep) - accumulator
                   <= MaxDeltaTime]_vars

\* C6 witness: a stalled frame (300 ms) was capped, ran 15 fixed ticks and
\* handed the capped delta to a component.
C6_Witness ==
    /\ pc = "return"
    /\ lastFixedUpdateTime - prevTime = 300
    /\ ticks = 15
    /\ \E i \in 1..Len(callLog) :
          callLog[i].fn = "Component.update" /\ callLog[i].dt = MaxDeltaTime

\* C7: when an update materializes the queue, an entity queued for removal
\* and present (in the registry or just added) has onRemove called exactly
\* once on each of its components, all before its one deletion, and is gone
\* from the registry; an entity queued for removal and not present, and an
\* entity not queued for removal, fire no hook and are not deleted.  No
\* callback of an update reaches a component of an entity outside the
\* registry.
C7_RemovalHooks ==
    /\ [][SimulatingUpdate =>
            \A e \in EntityIds :
               LET present == e \in Range(entities) \cup Range(entitiesToAdd)
                   queued == e \in Range(entitiesToRemove)
                   deleted == {k \in 1..Len(queueLog') :
                                  queueLog'[k] = [ev |-> "delete", id |-> e]}
                   hooks(c) == {k \in 1..Len(queueLog') :
                                  queueLog'[k] = [ev |-> "onRemove", id |-> c]}
               IN  IF queued /\ present
                   THEN /\ Cardinality(deleted) = 1
                        /\ e \notin Range(entities')
                        /\ \A c \in Range(components[e]) :
                              /\ Cardinality(hooks(c)) = 1
                              /\ \A k \in hooks(c) : \A d \in deleted : k < d
                   ELSE /\ deleted = {}
                        /\ \A c \in Range(components[e]) : hooks(c) = {}
                        /\ (e \in Range(entities') <=> present)]_vars
    /\ [](\A i \in 1..Len(callLog) :
             callLog[i].comp # Null =>
                entityOf[callLog[i].comp] \in Range(entities))

\* C7 witness: the update in progress has removed entity 1, notifying its two
\* components first.
C7_Witness ==
    /\ pc # "idle"
    /\ queueLog = <<[ev |-> "onRemove", id |-> 1],
                    [ev |-> "onRemove", id |-> 2],
                    [ev |-> "delete", id |-> 1]>>

\* C8 (as claimed): an entity holds at most one component per type, and every
\* component whose back-reference points at an entity is attached to that
\* entity (a replaced component has its back-reference set to null).
C8_BackReferenceAttached ==
    /\ \A e \in EntityIds : \A i, j \in 1..Len(components[e]) :
          CompType(components[e][i]) = CompType(components[e][j]) => i = j
    /\ \A c \in CompIds :
          entityOf[c] # Null => c \in Range(components[entityOf[c]])

\* what clamping an argument x to [lo, hi] gives
ClampedTo(lo, hi, x) == IF x < lo THEN lo ELSE IF x > hi THEN hi ELSE x

Latched(stamps, v) == stamps[v] # NoStamp

\* C10: checkpoint hysteresis.  A checkVehiclePassing call returns true only
\* when the distance is <= radius and the vehicle is not latched, and then it
\* latches the vehicle; it returns true only if no pass was reported for the
\* vehicle since a call last saw it beyond 1.5 x radius; a call for a latched
\* vehicle at a distance <= 1.5 x radius returns false and keeps the latch;
\* a call at a distance in (radius, 1.5 x radius] changes nothing; and a call
\* never touches another vehicle's latch.
C10_Hysteresis ==
    [][cpCalls' = cpCalls + 1 =>
          LET v == cpArg'.vehicle
              d == cpArg'.distance
          IN  /\ cpRet' =>
                    /\ d <= Radius
                    /\ ~Latched(passedTimestamps, v)
                    /\ Latched(passedTimestamps', v)
                    /\ armed[v]
              /\ (Latched(passedTimestamps, v) /\ 2 * d <= 3 * Radius) =>
                    /\ ~cpRet'
                    /\ passedTimestamps'[v] = passedTimestamps[v]
              /\ (d > Radius /\ 2 * d <= 3 * Radius) =>
                    /\ ~cpRet'
                    /\ passedTimestamps' = passedTimestamps
              /\ \A w \in VehicleIds \ {v} :
                    passedTimestamps'[w] = passedTimestamps[w]]_vars

\* C10 witness: the call just made found a vehicle, latched at an earlier
\* time, in the dead zone between radius and 1.5 x radius, and left it
\* latched; the other vehicle is not latched.
C10_Witness ==
    /\ ~cpRet
    /\ \E v \in VehicleIds :
          /\ cpArg.vehicle = v
          /\ cpArg.distance = Radius + 1
          /\ Latched(passedTimestamps, v)
          /\ passedTimestamps[v] < now
          /\ \E w \in VehicleIds \ {v} : ~Latched(passedTimestamps, w)

(***************************************************************************)
(* LapCounterComponent: claims                                             *)
(***************************************************************************)
\* this step is a passCheckpoint call
Passing == lapCalls' = lapCalls + 1 /\ now' = now + 1

\* the Map a lap record holds
CheckpointTimes(lc, lap) == lc.maps[lap.checkpointTimes]

\* C11: passCheckpoint on a counter that is not racing (never started, or
\* finished) returns false and leaves every field of the counter as it was.
C11_IgnoredIfNotRacing ==
    [][Passing /\ ~lapCounter[Racer].isRacing
         => /\ lapRet' = FALSE
            /\ lapCounter'[Racer] = lapCounter[Racer]]_vars

\* a pass was ignored after the counter had finished its last lap
C11_Witness ==
    /\ lapArg.entity = Racer
    /\ ~lapCounter[Racer].isRacing
    /\ lapCounter[Racer].currentLap = lapCounter[Racer].totalLaps + 1
    /\ \A i \in 1..Len(lapCounter[Racer].lapHistory) :
           lapArg.timestamp > lapCounter[Racer].lapHistory[i].endTime
    /\ lapRet = FALSE

\* C12: with totalLaps = 3 and totalCheckpoints = 5, the calls
\* passCheckpoint 0,1,2,3,4,0 right after startRace leave the counter racing
\* in lap 2 at checkpoint 0 with exactly one lap record: lap 1, valid, with
\* a timestamp for each of the 5 checkpoints.
C12_FirstLapScenario ==
    LET lc == lapCounter[Racer]
    IN  (scenario = Len(ScenarioPasses)
            /\ lc.totalLaps = 3 /\ lc.totalCheckpoints = 5)
        => /\ lc.currentLap = 2
           /\ lc.currentCheckpoint = 0
           /\ lc.isRacing
           /\ Len(lc.lapHistory) = 1
           /\ lc.lapHistory[1].lapNumber = 1
           /\ lc.lapHistory[1].valid
           /\ \A i \in 0..4 :
                  MapHas(CheckpointTimes(lc, lc.lapHistory[1]), i)

C12_Witness ==
    /\ scenario = Len(ScenarioPasses)
    /\ lapCounter[Racer].totalLaps = 3
    /\ lapCounter[Racer].totalCheckpoints = 5
    /\ lapArg = [entity |-> Racer, index |-> 0, timestamp |-> 6]

\* C13: every lap record ever appended is flagged valid exactly when its
\* checkpointTimes holds every index below totalCheckpoints, and the Map of
\* a record is a copy: no later call changes what it holds.
C13_LapValidity ==
    /\ [](\A i \in 1..Len(lapCounter[Racer].lapHistory) :
            LET lc == lapCounter[Racer]
                lap == lc.lapHistory[i]
            IN  lap.valid <=>
                    \A k \in 0..(lc.totalCheckpoints - 1) :
                        MapHas(CheckpointTimes(lc, lap), k))
    /\ [][\A i \in 1..Len(lapCounter[Racer].lapHistory) :
             i <= Len(lapCounter'[Racer].lapHistory)
                 => CheckpointTimes(lapCounter'[Racer],
                                    lapCounter'[Racer].lapHistory[i])
                    = CheckpointTimes(lapCounter[Racer],
                                      lapCounter[Racer].lapHistory[i])]_vars

\* a lap that skipped checkpoint 1 is on record as invalid, a full lap
\* driven after it as valid
C13_Witness ==
    LET lc == lapCounter[Racer]
    IN  /\ Len(lc.lapHistory) = 2
        /\ ~lc.lapHistory[1].valid
        /\ ~MapHas(CheckpointTimes(lc, lc.lapHistory[1]), 1)
        /\ lc.lapHistory[2].valid
        /\ lc.lapHistory[2].startTime = lc.lapHistory[1].endTime

\* C14: whenever a racing counter has currentCheckpoint = totalCheckpoints-1,
\* every index 1..totalCheckpoints-1 is in the pass map of this lap; hence a
\* lap completed by passing 0 while currentCheckpoint = totalCheckpoints-1
\* is recorded as valid.
C14_StrictPathIsComplete ==
    /\ [](LET lc == lapCounter[Racer]
          IN  (lc.isRacing /\ lc.totalCheckpoints > 0
                  /\ lc.currentCheckpoint = lc.totalCheckpoints - 1)
              => \A k \in 1..(lc.totalCheckpoints - 1) :
                     MapHas(PassMap(lc), k))
    /\ [][LET lc == lapCounter[Racer]
              after == lapCounter'[Racer]
          IN  (Passing /\ lc.isRacing /\ lapArg'.index = 0
                  /\ lc.totalCheckpoints > 0
                  /\ lc.currentCheckpoint = lc.totalCheckpoints - 1)
              => /\ Len(after.lapHistory) = Len(lc.lapHistory) + 1
                 /\ after.lapHistory[Len(after.lapHistory)].valid]_vars

\* C15: a lap tolerates at most one missed checkpoint: every lap record
\* holds at least totalCheckpoints-1 distinct checkpoint indexes.
C15_AtMostOneMissed ==
    \A i \in 1..Len(lapCounter[Racer].lapHistory) :
        LET lc == lapCounter[Racer]
        IN  MapSize(CheckpointTimes(lc, lc.lapHistory[i]))
                >= lc.totalCheckpoints - 1

\* this step appended a lap record
LapCompleted ==
    Len(lapCounter'[Racer].lapHistory) = Len(lapCounter[Racer].lapHistory) + 1

\* (currentCheckpoint + 1) mod totalCheckpoints, with the count the call uses
ExpectedNextOf(lc) ==
    (lc.currentCheckpoint + 1)
        % (IF lc.totalCheckpoints = 0 THEN FallbackCheckpoints
           ELSE lc.totalCheckpoints)

\* C16: on a racing counter passCheckpoint returns true exactly when it
\* completed a lap or the index was the expected next checkpoint (which then
\* is currentCheckpoint); when it returns false, currentLap and lapHistory
\* are unchanged, the pass is in the pass map, and currentCheckpoint changes
\* only to an index greater than it.
C16_PassResult ==
    [][LET lc == lapCounter[Racer]
           after == lapCounter'[Racer]
           index == lapArg'.index
       IN  (Passing /\ lc.isRacing)
           => /\ lapRet' <=> (LapCompleted \/ index = ExpectedNextOf(lc))
              /\ (lapRet' /\ ~LapCompleted)
                     => after.currentCheckpoint = index
              /\ ~lapRet'
                     => /\ after.currentLap = lc.currentLap
                        /\ after.lapHistory = lc.lapHistory
                        /\ PassMap(after)[index] = lapArg'.timestamp
                        /\ after.currentCheckpoint # lc.currentCheckpoint
                               => /\ index > lc.currentCheckpoint
                                  /\ after.currentCheckpoint = index]_vars

\* a pass of 3 right after checkpoint 1 was refused, and moved
\* currentCheckpoint to 3; a pass of 0 before it was refused and moved nothing
C16_Witness ==
    /\ lapArg.entity = Racer /\ lapArg.index = 3
    /\ ~lapRet
    /\ lapCounter[Racer].isRacing
    /\ lapCounter[Racer].currentCheckpoint = 3
    /\ MapHas(PassMap(lapCounter[Racer]), 0)
    /\ MapHas(PassMap(lapCounter[Racer]), 1)
    /\ ~MapHas(PassMap(lapCounter[Racer]), 2)

\* C17: while racing 1 <= currentLap <= totalLaps; a racing counter stops
\* racing exactly in the step that completes lap number totalLaps, leaving
\* currentLap = totalLaps + 1; a completion that does not end the race
\* clears the pass map, sets currentCheckpoint = 0 and starts the next lap
\* at the completing timestamp.
C17_LapStateMachine ==
    /\ [](lapCounter[Racer].isRacing
            => /\ 1 <= lapCounter[Racer].currentLap
               /\ lapCounter[Racer].currentLap <= lapCounter[Racer].totalLaps)
    /\ [][LET lc == lapCounter[Racer]
              after == lapCounter'[Racer]
          IN  lc.isRacing
              => /\ ~after.isRacing
                     <=> /\ LapCompleted
                         /\ after.lapHistory[Len(after.lapHistory)].lapNumber
                                = lc.totalLaps
                         /\ after.currentLap = lc.totalLaps + 1
                 /\ (LapCompleted /\ after.isRacing)
                     => /\ PassMap(after) = EmptyMap
                        /\ after.currentCheckpoint = 0
                        /\ after.lapStartTime = lapArg'.timestamp
                        /\ after.currentLap = lc.currentLap + 1]_vars

\* a two-lap race was driven to its end
C17_Witness ==
    LET lc == lapCounter[Racer]
    IN  /\ ~lc.isRacing
        /\ lc.totalLaps = 2
        /\ lc.currentLap = 3
        /\ Len(lc.lapHistory) = 2
        /\ lc.lapHistory[2].startTime = lc.lapHistory[1].endTime
        /\ lc.lapHistory[2].endTime = lapArg.timestamp

(***************************************************************************)
(* RaceSystem: claims                                                      *)
(***************************************************************************)
\* the countdown ticks sent so far, and the number of race-start
\* notifications
TicksOf(log) ==
    LET sent == SelectSeq(log, LAMBDA n : n.kind = "countdownTick")
    IN  [i \in 1..Len(sent) |-> sent[i].a]
RaceStartsIn(log) == Len(SelectSeq(log, LAMBDA n : n.kind = "raceStart"))

\* C18: with a tick callback installed, startCountdown emits tick(3) at
\* once; updates of 1.0 s emit tick(2), then tick(1); the third update makes
\* the race active and the countdown inactive, notifies the race-start
\* callback (if one is installed) once, and neither it nor any later update
\* emits a tick.
C18_CountdownScenario ==
    race.onCountdownTick
    => /\ countdownScenario = 1
          => /\ TicksOf(raceLog) = <<3>>
             /\ race.countdownActive /\ ~race.isRaceActive
       /\ countdownScenario = 2
          => /\ TicksOf(raceLog) = <<3, 2>>
             /\ race.countdownActive /\ ~race.isRaceActive
       /\ countdownScenario = 3
          => /\ TicksOf(raceLog) = <<3, 2, 1>>
             /\ race.countdownActive /\ ~race.isRaceActive
             /\ RaceStartsIn(raceLog) = 0
       /\ countdownScenario >= 4
          => /\ TicksOf(raceLog) = <<3, 2, 1>>
             /\ race.isRaceActive /\ ~race.countdownActive
             /\ RaceStartsIn(raceLog) = (IF race.onRaceStart THEN 1 ELSE 0)

\* two more updates of 1.0 s have followed the one that started the race
C18_Witness ==
    /\ race.onCountdownTick /\ race.onRaceStart
    /\ countdownScenario = 6
    /\ raceOp = "update"
    /\ race.isRaceActive

\* this step is a call of startCountdown
StartingCountdown == raceCalls' = raceCalls + 1 /\ raceOp' = "startCountdown"

\* C19: startCountdown while a countdown or a race is active changes nothing:
\* the remaining time and the last tick stay, and no tick is emitted.
C19_StartCountdownNoOp ==
    [][(StartingCountdown /\ (race.countdownActive \/ race.isRaceActive))
          => /\ race' = race
             /\ raceLog' = raceLog]_vars

\* startCountdown was called in the middle of a countdown
C19_Witness ==
    /\ raceOp = "startCountdown"
    /\ race.countdownActive
    /\ race.countdownTimer < CountdownTime
    /\ race.lastCountdownTick = 2
    /\ TicksOf(raceLog) = <<3, 2>>

\* the racers of the world: a lap counter and a vehicle
Racers ==
    {e \in Range(entities) :
        GetComponent(e, "lapCounter") # Null /\ GetComponent(e, "vehicle") # Null}

\* C20: when the countdown of a RaceSystem added to a World by addSystem
\* ends, the update that makes the race active clears the latch map of
\* every registered checkpoint, starts the lap counter of every racer of
\* that world (racing, lap 1, checkpoint 0, no history), makes the rankings
\* exactly the racers' ids, and notifies the race start once.
C20_RaceStartStartsRacers ==
    [][(race.countdownActive /\ ~race.isRaceActive /\ race'.isRaceActive)
          => /\ \A e \in Racers :
                    /\ lapCounter'[e].isRacing
                    /\ lapCounter'[e].currentLap = 1
                    /\ lapCounter'[e].currentCheckpoint = 0
                    /\ lapCounter'[e].lapHistory = <<>>
             /\ Range(race'.playerRankings) = Racers
             /\ Len(race'.playerRankings) = Cardinality(Racers)
             /\ \A i \in 1..Len(race.checkpoints) :
                    passedTimestamps' = ResetAll(passedTimestamps)
             /\ race.onRaceStart
                    => RaceStartsIn(raceLog') = RaceStartsIn(raceLog) + 1]_vars

(***************************************************************************)
(* RaceSystem: claims about the race itself                                *)
(***************************************************************************)
\* the lap-completed notifications sent for a racer, in order
LapNotes(e) ==
    SelectSeq(raceLog, LAMBDA n : n.kind = "lapCompleted" /\ n.entity = e)

\* the records of lap n in a lap counter's history
RecordsOf(lc, n) ==
    {i \in 1..Len(lc.lapHistory) : lc.lapHistory[i].lapNumber = n}

NoDuplicates(list) ==
    \A i, j \in 1..Len(list) : list[i] = list[j] => i = j

\* list a is the beginning of list b
IsPrefix(a, b) == Len(a) <= Len(b) /\ SubSeq(b, 1, Len(a)) = a

RaceEndsIn(log) == Len(SelectSeq(log, LAMBDA n : n.kind = "raceEnd"))

\* the entities of the world that carry a lap counter
LapCounted ==
    {e \in Range(entities) : GetComponent(e, "lapCounter") # Null}

\* every racer of the world has driven its laps
AllFinished ==
    \A e \in LapCounted : circuits[e] >= lapCounter[e].totalLaps

StrictlyBehind(a, b) ==
    \/ lapCounter[a].currentLap < lapCounter[b].currentLap
    \/ /\ lapCounter[a].currentLap = lapCounter[b].currentLap
       /\ lapCounter[a].currentCheckpoint < lapCounter[b].currentCheckpoint

\* C24: when an update of an active race returns, the rankings begin with
\* the finished players in finish order, hold besides them exactly the
\* unfinished racers of the world, none ranked behind a racer that is
\* strictly behind it, and hold no id twice.
C24_RankingInvariant ==
    (raceOp = "update" /\ race.isRaceActive)
    => LET ranks == race.playerRankings
           k == Len(race.finishedPlayers)
       IN  /\ IsPrefix(race.finishedPlayers, ranks)
           /\ Range(ranks) = Range(race.finishedPlayers) \cup LapCounted
           /\ NoDuplicates(ranks)
           /\ \A i, j \in (k + 1)..Len(ranks) :
                  i < j => ~StrictlyBehind(ranks[i], ranks[j])

\* the car has driven the three laps of the race
DroveThreeLaps(e) == lapCounter[e].totalLaps = 3 /\ circuits[e] >= 3

CheckpointEntities ==
    {e \in Range(entities) :
        /\ GetComponent(e, "checkpoint") # Null
        /\ GetComponent(e, "transform") # Null}

\* C26: when registerCheckpoints returns, the registered list holds exactly
\* the checkpoint entities of the world, each once, in ascending order of
\* checkpoint index, and every lap counter of the world has that many
\* totalCheckpoints; and when an update of an active race with registered
\* checkpoints returns, every racer's totalCheckpoints is their number.
C26_CheckpointsRegistered ==
    /\ raceOp = "registerCheckpoints"
          => /\ Range(race.checkpoints) = CheckpointEntities
             /\ NoDuplicates(race.checkpoints)
             /\ \A i, j \in 1..Len(race.checkpoints) :
                    i < j =>
                      CheckpointIndexOf(
                          GetComponent(race.checkpoints[i], "checkpoint"))
                      <= CheckpointIndexOf(
                          GetComponent(race.checkpoints[j], "checkpoint"))
             /\ \A e \in LapCounted :
                    lapCounter[e].totalCheckpoints = Len(race.checkpoints)
    /\ (raceOp = "update" /\ race.isRaceActive /\ race.checkpoints # <<>>)
          => \A e \in Racers :
                 lapCounter[e].totalCheckpoints = Len(race.checkpoints)

(***************************************************************************)
(* NetworkSystem: claims                                                   *)
(***************************************************************************)
\* this step is the delivery of an inbound transform or vehicle update
Receiving ==
    /\ netCalls' = netCalls + 1
    /\ netOp'.op \in {"transform", "vehicle"}

\* the entities whose transform or vehicle state this step changes
Mutated ==
    {e \in EntityIds :
        transform'[e] # transform[e] \/ vehicleState'[e] # vehicleState[e]}

\* C27: an inbound transform or vehicle update whose senderId is the local
\* client id changes nothing: no entity's transform or vehicle state, no
\* network identity, nothing of the system, whatever its entityId.
C27_EchoSuppression ==
    [][(Receiving /\ netOp'.message.senderId = net.clientId)
          => /\ Mutated = {}
             /\ identity' = identity
             /\ net' = net
             /\ outbox' = outbox]_vars

\* an echo arrived for a registered entity that this client does not own,
\* with data the entity does not have
C27_Witness ==
    /\ netOp.op \in {"transform", "vehicle"}
    /\ netOp.message.senderId = net.clientId
    /\ LET entity == net.networkEntities[netOp.message.entityId]
       IN  /\ entity # Null
           /\ ~identity[entity].isOwner
           /\ netOp.op = "transform"
                 => transform[entity].position # netOp.message.data.position
           /\ netOp.op = "vehicle"
                 => vehicleState[entity].velocity
                        # netOp.message.data.velocity

\* C28: an inbound transform or vehicle update from another sender changes
\* the transform or vehicle state of no entity but the one registered under
\* its entityId, and of that one only if its identity has isOwner = false;
\* it changes no identity and nothing of the system.
C28_OnlyRegisteredNonOwned ==
    [][(Receiving /\ netOp'.message.senderId # net.clientId)
          => /\ \A e \in Mutated :
                    /\ net.networkEntities[netOp'.message.entityId] = e
                    /\ ~identity[e].isOwner
             /\ identity' = identity
             /\ net' = net
             /\ outbox' = outbox]_vars

\* a vehicle update from another client has been applied to the remote car
\* while the local car is registered too
C28_Witness ==
    /\ netOp.op = "vehicle"
    /\ netOp.message.senderId = RemoteClient
    /\ net.networkEntities[netOp.message.entityId] = 2
    /\ net.networkEntities[1] = 1
    /\ identity[1].isOwner
    /\ vehicleState[2].velocity = netOp.message.data.velocity
    /\ vehicleState[1] = NewVehicleState

\* the messages this step gives to socket.emit
Sent == {i \in 1..Len(outbox') : i > Len(outbox)}

\* C29: an update sends a transform or vehicle message for an entity only
\* if the system is connected, the entity's identity has isOwner = true and
\* needsSync(now) returned true for it in that update (it was dirty and its
\* syncInterval had elapsed since its last sync; the flag is cleared and
\* the sync time set); a vehicle message only if syncVelocity is on and the
\* entity has a vehicle component; every message carries the local client
\* id as senderId; and nothing but update sends.
C29_OnlyOwnerTransmits ==
    [][/\ IsPrefix(outbox, outbox')
       /\ Sent # {} => netOp'.op = "update" /\ netCalls' = netCalls + 1
       /\ \A i \in Sent :
             LET m == outbox'[i]
             IN  /\ net.isConnected
                 /\ m.senderId = net.clientId
                 /\ \E e \in Range(entities) :
                        /\ GetComponent(e, "networkIdentity") # Null
                        /\ identity[e].networkId = m.entityId
                        /\ identity[e].isOwner
                        /\ identity[e].isDirty
                        /\ now' - identity[e].lastSyncTime
                               >= identity[e].syncInterval
                        /\ ~identity'[e].isDirty
                        /\ identity'[e].lastSyncTime = now'
                        /\ m.type = "vehicle"
                              => /\ identity[e].syncVelocity
                                 /\ GetComponent(e, "vehicle") # Null]_vars

\* an update has just sent the transform and the vehicle state of the
\* local car
C29_Witness ==
    /\ netOp.op = "update"
    /\ Len(outbox) = 2
    /\ outbox[1].type = "transform" /\ outbox[2].type = "vehicle"
    /\ outbox[1].timestamp = now /\ outbox[2].timestamp = now
    /\ outbox[1].senderId = LocalClient

\* the transform messages sent for a network id, in order
TransformsFor(id) ==
    SelectSeq(outbox, LAMBDA m : m.type = "transform" /\ m.entityId = id)

\* C30: two updates that both go through the network entities have clock
\* readings at least syncInterval (100 ms) apart, whatever deltaTime they
\* are given; and two consecutive transform messages of an entity are at
\* least that entity's syncInterval apart.
C30_SyncRateLimit ==
    /\ \A i \in 1..(Len(syncLog) - 1) :
           syncLog[i + 1] - syncLog[i] >= SyncInterval
    /\ \A e \in EntityIds :
           LET sent == TransformsFor(identity[e].networkId)
           IN  \A i \in 1..(Len(sent) - 1) :
                  sent[i + 1].timestamp - sent[i].timestamp
                      >= identity[e].syncInterval

\* two updates have gone through the network entities, and each has sent
\* the transform of the local car
C30_Witness ==
    /\ Len(syncLog) = 2
    /\ Len(TransformsFor(LocalClient)) = 2

(***************************************************************************)
(* LapCounterComponent: the checkpoint count, the lap history, the best    *)
(* lap                                                                     *)
(***************************************************************************)
\* the counter's totalCheckpoints has been 0 since it was created
NeverCorrected(lc) == lc.totalCheckpoints = 0

\* C33: a passCheckpoint call on a racing lap counter never takes the
\* modulo of expectedNext with divisor 0 and leaves totalCheckpoints > 0;
\* a counter created with totalCheckpoints = 0 and never corrected has
\* totalCheckpoints = 5 after its first such call.
C33_TotalCheckpointsSelfHeal ==
    [][Passing /\ lapCounter[Racer].isRacing
         => /\ Divisor(lapCounter[Racer]) # 0
            /\ lapCounter'[Racer].totalCheckpoints > 0
            /\ NeverCorrected(lapCounter[Racer])
                   => lapCounter'[Racer].totalCheckpoints = 5]_vars

\* a counter created with no checkpoints has made its first racing pass
C33_Witness ==
    /\ lapCalls = 2
    /\ lapArg.entity = Racer
    /\ lapCounter[Racer].isRacing
    /\ lapCounter[Racer].totalLaps = 2
    /\ lapCounter[Racer].totalCheckpoints = 5
    /\ MapSize(PassMap(lapCounter[Racer])) = 1

\* C39: once startRace has been called, lapHistory has exactly
\* currentLap - 1 records; they are numbered 1, 2, ... in order, the
\* duration of each is its endTime minus its startTime, and each starts
\* when the one before it ended.
C39_LapHistoryShape ==
    LET lc == lapCounter[Racer]
        h == lc.lapHistory
    IN  lc.currentLap >= 1
            => /\ Len(h) = lc.currentLap - 1
               /\ \A i \in 1..Len(h) :
                      /\ h[i].lapNumber = i
                      /\ h[i].duration = h[i].endTime - h[i].startTime
                      /\ i > 1 => h[i].startTime = h[i - 1].endTime

\* two laps are on record, the first of them begun after the clock's origin
C39_Witness ==
    LET h == lapCounter[Racer].lapHistory
    IN  /\ Len(h) = 2
        /\ h[1].startTime > 0
        /\ h[2].startTime = h[1].endTime
        /\ h[2].duration > 0

\* the durations of the valid laps on record
ValidDurations(lc) ==
    {lc.lapHistory[i].duration :
         i \in {j \in 1..Len(lc.lapHistory) : lc.lapHistory[j].valid}}

\* C40: bestLapTime is null while lapHistory holds no valid lap, and
\* otherwise is the least duration of the valid laps on record; a lap that
\* is not valid leaves it as it was.
C40_BestLapTime ==
    LET lc == lapCounter[Racer]
    IN  IF ValidDurations(lc) = {}
        THEN lc.bestLapTime = NoBest
        ELSE /\ lc.bestLapTime \in ValidDurations(lc)
             /\ \A d \in ValidDurations(lc) : lc.bestLapTime <= d

\* a valid lap is on record and a shorter lap that is not valid came after
C40_Witness ==
    LET h == lapCounter[Racer].lapHistory
    IN  /\ Len(h) = 2
        /\ h[1].valid
        /\ ~h[2].valid
        /\ h[2].duration < h[1].duration
        /\ lapCounter[Racer].bestLapTime = h[1].duration

(***************************************************************************)
(* Systems and their world reference                                       *)
(***************************************************************************)
\* C34: every system that World.addSystem has added holds a reference to
\* that world, the network system and the race system included, so that no
\* method of the race system skips its work for want of a world.
C34_SystemHoldsWorld ==
    \A s \in Range(systems) : systemWorld[s] = TheWorld

(***************************************************************************)
(* RaceSystem: the two flags                                               *)
(***************************************************************************)
\* C38: whatever the order of startCountdown, startRace, endRace and
\* update, the race is never active while the countdown is, and no
\* race-start notification is sent by a call made while the race is active.
C38_FlagsExclusive ==
    /\ [](~(race.isRaceActive /\ race.countdownActive))
    /\ [][RaceStartsIn(raceLog') > RaceStartsIn(raceLog)
             => ~race.isRaceActive]_vars

\* a startRace call cut a countdown short before its first update, and
\* within five calls the race has ended and has been started a second time
C38_Witness ==
    /\ raceOp = "startRace"
    /\ race.isRaceActive
    /\ ~race.countdownActive
    /\ race.countdownTimer = CountdownTime
    /\ RaceStartsIn(raceLog) = 2
    /\ RaceEndNote \in Range(raceLog)
    /\ raceCalls = 5

(***************************************************************************)
(* RaceSystem: the ticks of one countdown                                  *)
(***************************************************************************)
\* C37: the ticks of a countdown are integers in 1..3, each smaller than
\* the one before, and none is sent once the race is active; when no
\* update of the countdown was given more than 0.25 s (the cap of
\* World.update), the ticks sent by the time the race starts are exactly
\* 3, 2, 1.
C37_CountdownTicks ==
    /\ [](LET t == TicksOf(raceLog)
          IN  /\ \A i \in 1..Len(t) :
                     t[i] \in 1..3 /\ (i > 1 => t[i] < t[i - 1])
              /\ (race.onCountdownTick /\ largestDelta <= MaxDeltaTime)
                     => IF race.isRaceActive
                        THEN t = <<3, 2, 1>>
                        ELSE IsPrefix(t, <<3, 2, 1>>))
    /\ [][race.isRaceActive
             => TicksOf(raceLog') = TicksOf(raceLog)]_vars

\* a countdown of frames has sent 3, 2, 1 and started the race, and a
\* frame has come after that
C37_Witness ==
    /\ race.onCountdownTick /\ race.onRaceStart
    /\ largestDelta = 300
    /\ race.isRaceActive
    /\ TicksOf(raceLog) = <<3, 2, 1>>
    /\ raceLog[Len(raceLog)] = RaceStartNote
    /\ raceCalls = 2

(***************************************************************************)
(* GameManager: a single-player race                                       *)
(***************************************************************************)
\* C35: in a single-player game the race system has the track's five
\* checkpoints registered by the time the race is active.
C35_CheckpointsRegisteredAtStart ==
    (GameState # "LOBBY" /\ race.isRaceActive)
        => Len(race.checkpoints) = TrackCheckpoints

\* the local car has come round the track as often as the race has laps
DroveAllLaps == circuits[CarA] >= race.totalLaps

\* C36: a single-player game goes from LOADING to COUNTDOWN to RACING, and
\* is FINISHED once the local car has driven all laps of the race.
C36_RaceFinishes ==
    /\ IsPrefix(gameStates,
                <<"LOBBY", "LOADING", "COUNTDOWN", "RACING", "FINISHED">>)
    /\ ("RACING" \in Range(gameStates) /\ DroveAllLaps)
           => GameState = "FINISHED"

(***************************************************************************)
(* NetworkSystem: the local car's movement is sent                         *)
(***************************************************************************)
\* the transform of an entity as the last message about it gave it, or as
\* it was made when none was sent
LastSent(e) ==
    LET sent == TransformsFor(identity[e].networkId)
    IN  IF sent = <<>> THEN [position |-> NewTransform.position,
                             rotation |-> NewTransform.quaternion]
        ELSE [position |-> sent[Len(sent)].data.position,
              rotation |-> sent[Len(sent)].data.rotation]

\* the simulation has moved or turned the entity since
MovedSinceSent(e) ==
    \/ transform[e].position # LastSent(e).position
    \/ transform[e].quaternion # LastSent(e).rotation

\* this step is an update that goes through the network entities
SyncPass ==
    /\ netCalls' = netCalls + 1
    /\ netOp'.op = "update"
    /\ DoesSyncWork(net, systemWorld["network"], now')

\* C31: while the network system is connected, a car that the local client
\* owns, that syncs its position or rotation and that the simulation has
\* moved gets a transform message at the next update that goes through the
\* network entities once the car's sync interval has passed.
C31_MovementIsSent ==
    [][\A e \in Range(entities) :
           (/\ SyncPass
            /\ identity[e].isOwner
            /\ identity[e].syncPosition \/ identity[e].syncRotation
            /\ MovedSinceSent(e)
            /\ IntervalElapsed(identity[e], now'))
               => \E i \in Sent :
                      /\ outbox'[i].type = "transform"
                      /\ outbox'[i].entityId = identity[e].networkId]_vars
====
